---- MODULE Spec2Model ----
(***************************************************************************)
(* The operation-log synchronisation engine of the collaborative canvas:   *)
(* the operations and redo_stack tables (SQL migrations), SyncService      *)
(* (connect / commitStroke / commitClear / undoLast / redoLast), the       *)
(* realtime fan-out of INSERT and DELETE events, and the client's Canvas   *)
(* State kept by useCanvas (endDrawing / addOperation / removeOperation /  *)
(* setOperations) as wired together by CollaborativeCanvas.                *)
(*                                                                         *)
(* Every database statement is one atomic step taken at the moment the     *)
(* server executes it; the awaits between the statements of one call are   *)
(* the points where the steps of other clients interleave.                 *)
(***************************************************************************)
EXTENDS Integers, Sequences, FiniteSets, TLC

\* ------------------------------------------------------------------ bounds

\* User commands (strokes, undos, redos, clears) issued in one behaviour.
MaxCalls == 3

\* User commands issued in one behaviour of SpecLive.
MaxCallsLive == 4

\* User commands issued in one behaviour of SpecSeeded.
MaxCallsSeeded == 2

\* Operations in the log of the default room in the initial states of SpecSeeded.
SeedLog == 2

\* User commands issued in one behaviour of SpecRooms.
MaxCallsRooms == 3

\* User commands issued in one behaviour of SpecFaulty.
MaxCallsFaulty == 3

\* Points in an input of filterNearbyPoints and in the buffer of one stroke.
MaxPoints == 4

\* Strokes started in one behaviour of SpecDraw.
MaxStrokes == 2

\* Mouse moves of one stroke in SpecDraw.
MaxMoves == 2

\* Operations in a list given to setOperations in SpecReplay.
MaxReplay == 3

\* Loads of one client's Canvas State in SpecReplay.
MaxLoads == 3

\* Strokes drawn in one behaviour of SpecQuick.
MaxCallsQuick == 3

\* Commands of the user in one behaviour of SpecErrors.
MaxCallsErrors == 3

\* Room changes and calls of updateCursor in one behaviour of SpecCursor.
MaxCallsCursor == 4

\* The time at which the behaviours of SpecCursor end, in milliseconds.
MaxTime == 150

\* The longest step of the time in SpecCursor, in milliseconds.
TickMs == 25

\* Operations of other users in the log in the initial states of SpecDeliver.
MaxDeliver == 4

\* ------------------------------------------------------- program constants

\* useCollaboration.updateCursor: setTimeout(..., 50).
CursorDelay == 50

\* BRUSH_WIDTHS.
BRUSH_WIDTHS == {2, 4, 8, 12, 20}

\* The brush widths chosen in SpecDraw: the default and the widest.
WidthsTried == {w \in BRUSH_WIDTHS : w = 4 \/ w = 20}

\* cleanup_old_redo_items: OFFSET 50.
RedoLimit == 50

\* ---------------------------------------------------------------- universe

Clients == {"A", "B"}

Rooms == {"r1", "r2"}

\* DEFAULT_ROOM_ID, the room every client of Spec is in.
DEFAULT_ROOM_ID == "r1"

\* The absent value: null / undefined in the source.
None == [none |-> TRUE]

\* Each browser session has its own USER_ID (getOrCreateUserId).
UserId(c) == c

VARIABLES
    rooms,          \* table public.rooms: the ids of its rows
    operations,     \* table public.operations: a set of rows
    redo_stack,     \* table public.redo_stack: a set of rows
    sequence_seq,   \* last value of the BIGSERIAL sequence of operations.sequence
    clock,          \* database clock behind redo_stack.deleted_at DEFAULT now()
    roomId,         \* SyncService.roomId of each client
    conn,           \* position of each client's connect()
    presence,       \* status of each client's presence channel
    previous,       \* the SyncService a client has disconnected by leaving its room
    fetched,        \* the rows read by the initial select of connect()
    canvasOps,      \* useCanvas: the operations state of each client (Canvas State)
    inbox,          \* realtime events sent to a client and not yet handled
    call,           \* the pending SyncService call of each client
    strokeCount,    \* strokes started by each client (generateId)
    budget,         \* user commands still allowed
    accepted,       \* history: the appends in the order the log store accepted them
    undone,         \* history: the undoLast calls that returned an identifier
    freshCommit,    \* history: per room, a commit completed and no undo since
    missed,         \* history: the log changed between a client's select and its subscription
    track,          \* history: an undoLast and a redoLast running with no other step
    cleared,        \* history: the operations removed by commitClear
    toolSettings,   \* CollaborativeCanvas: the tool settings of each client
    currentStrokeRef,   \* useCanvas: the stroke in progress of each client
    pointBufferRef, \* useCanvas: the raw points of the stroke in progress
    filterCall,     \* one call of filterNearbyPoints: its arguments and result
    pendingCommit,  \* a commitStroke of a client begun while another was pending
    loads,          \* history: the Canvas State after each setOperations of SpecReplay
    now,            \* the time, in milliseconds
    cursorThrottleRef,  \* useCollaboration: the pending timeout of updateCursor
    tracked,        \* the presence state each client has published
    cursorLog,      \* history: the calls of updateCursor and the publishes
    lifo            \* history: per room, the operations undone and not yet redone,
                    \* and how many of them a stack of RedoLimit entries has lost

vars == <<rooms, operations, redo_stack, sequence_seq, clock, roomId, conn,
          presence, previous, fetched,
          canvasOps, inbox, call, strokeCount, budget, accepted, undone,
          freshCommit, missed, track, lifo, cleared, toolSettings,
          currentStrokeRef, pointBufferRef, filterCall, pendingCommit, loads, now,
          cursorThrottleRef, tracked, cursorLog>>

cursors == <<now, cursorThrottleRef, tracked, cursorLog>>

drawing ==
    <<toolSettings, currentStrokeRef, pointBufferRef, filterCall, pendingCommit, loads>>

server == <<rooms, operations, redo_stack, sequence_seq, clock>>

history == <<accepted, undone, freshCommit, missed, track, lifo, cleared>>

Idle == [op |-> "none"]

\* --------------------------------------------------------------- sequences

Range(s) == {s[i] : i \in 1..Len(s)}

\* One step of a stable insertion sort: x goes after every element that does
\* not compare greater than it.
InsertStable(sorted, x) ==
    LET k == Cardinality({i \in 1..Len(sorted) : sorted[i].sequence <= x.sequence})
    IN  SubSeq(sorted, 1, k) \o <<x>> \o SubSeq(sorted, k + 1, Len(sorted))

\* Array.prototype.sort((a, b) => a.sequence - b.sequence), which is stable.
RECURSIVE SortBySequence(_)
SortBySequence(s) ==
    IF s = <<>> THEN <<>>
    ELSE InsertStable(SortBySequence(SubSeq(s, 1, Len(s) - 1)), s[Len(s)])

\* The rows of a set in ascending order of sequence (.order('sequence')).
RECURSIVE OrderRows(_)
OrderRows(rows) ==
    IF rows = {} THEN <<>>
    ELSE LET first == CHOOSE r \in rows : \A q \in rows : r.sequence <= q.sequence
         IN  <<first>> \o OrderRows(rows \ {first})

\* ------------------------------------------------------------ the database

\* The rows of one room (.eq('room_id', roomId)).
RoomOps(room) == {r \in operations : r.room_id = room}

RoomRedo(room) == {e \in redo_stack : e.room_id = room}

\* listOrdered: select * from operations where room_id = room order by sequence.
ListOrdered(room) == OrderRows(RoomOps(room))

\* A naive sequencer: one more than the highest sequence now in the table.
NextSequenceFromMax ==
    IF operations = {} THEN 1
    ELSE 1 + (CHOOSE n \in {r.sequence : r \in operations} :
                \A r \in operations : r.sequence <= n)

\* sequence BIGSERIAL: nextval of the table's one sequence, shared by all rooms.
NextSequence == sequence_seq + 1

\* id UUID DEFAULT gen_random_uuid(): a fresh identifier for every inserted row.
NewRowId == <<"row", sequence_seq + 1>>

\* The row the insert of commitStroke stores: the stroke's own identifier
\* goes into data, the row gets its identifier and its sequence from the table.
StrokeRow(room, user, stroke) ==
    [id |-> NewRowId, room_id |-> room, user_id |-> user,
     sequence |-> NextSequence, type |-> "stroke",
     data |-> [id |-> stroke.id, color |-> stroke.color, width |-> stroke.width,
               tool |-> stroke.tool, points |-> stroke.points]]

\* A redo that signs the re-appended row with the caller instead of the author.
RedoRowAsCaller(room, user, opData) ==
    [id |-> NewRowId, room_id |-> room, user_id |-> user,
     sequence |-> NextSequence, type |-> opData.type, data |-> opData.data]

\* The row the insert of redoLast stores: author, type and data of the removed
\* row, a new identifier and a new sequence.
RedoRow(room, user, opData) ==
    [id |-> NewRowId, room_id |-> room, user_id |-> opData.user_id,
     sequence |-> NextSequence, type |-> opData.type, data |-> opData.data]

\* rowToOperation: the client's view of a row.
rowToOperation(row) ==
    [id |-> row.id, type |-> row.type, userId |-> row.user_id,
     color |-> row.data.color, width |-> row.data.width, tool |-> row.data.tool,
     points |-> row.data.points, sequence |-> row.sequence]

\* (existingOps || []).map(rowToOperation)
MapRows(rows) == [i \in 1..Len(rows) |-> rowToOperation(rows[i])]

\* An undo that takes the oldest operation of the room.
FirstOperation(room) ==
    IF RoomOps(room) = {} THEN None
    ELSE CHOOSE r \in RoomOps(room) : \A q \in RoomOps(room) : r.sequence <= q.sequence

\* A select that answers an empty log with a blank row instead of an error.
LastOperationOrBlank(room) ==
    IF RoomOps(room) = {}
    THEN [id |-> <<"row", 0>>, room_id |-> room, user_id |-> "P", sequence |-> 0,
          type |-> "stroke",
          data |-> [id |-> <<"P", 0>>, color |-> "#000000", width |-> 4,
                    tool |-> "brush", points |-> <<>>]]
    ELSE CHOOSE r \in RoomOps(room) : \A q \in RoomOps(room) : q.sequence <= r.sequence

\* undoLast's select: order by sequence descending, limit 1, single.
LastOperation(room) ==
    IF RoomOps(room) = {} THEN None
    ELSE CHOOSE r \in RoomOps(room) : \A q \in RoomOps(room) : q.sequence <= r.sequence

\* A redo that takes the entry removed first.
FirstRedoItem(room) ==
    IF RoomRedo(room) = {} THEN None
    ELSE CHOOSE e \in RoomRedo(room) :
            \A f \in RoomRedo(room) : e.deleted_at <= f.deleted_at

\* redoLast's select: order by deleted_at descending, limit 1, single.
LastRedoItem(room) ==
    IF RoomRedo(room) = {} THEN None
    ELSE CHOOSE e \in RoomRedo(room) :
            \A f \in RoomRedo(room) : f.deleted_at <= e.deleted_at

\* The redo_stack row the insert of undoLast stores (deleted_at DEFAULT now()).
RedoItem(room, lastOp) ==
    [id |-> <<"redo", clock + 1>>, room_id |-> room, original_id |-> lastOp.id,
     operation_data |-> lastOp, deleted_at |-> clock + 1]

\* A cleanup that keeps the oldest entries of the room.
CleanupNewest(table, room) ==
    {e \in table :
        e.room_id = room =>
            Cardinality({f \in table : f.room_id = room /\ f.deleted_at < e.deleted_at})
                < RedoLimit}

\* A cleanup whose offset is one too large.
CleanupOffByOne(table, room) ==
    {e \in table :
        e.room_id = room =>
            Cardinality({f \in table : f.room_id = room /\ f.deleted_at > e.deleted_at})
                < RedoLimit + 1}

\* cleanup_old_redo_items, run after every insert into redo_stack: of the
\* room of the new row, the rows after the first RedoLimit by deleted_at
\* descending are deleted.
cleanup_old_redo_items(table, room) ==
    {e \in table :
        e.room_id = room =>
            Cardinality({f \in table : f.room_id = room /\ f.deleted_at > e.deleted_at})
                < RedoLimit}

\* The realtime fan-out: an event reaches the clients whose subscription to
\* the room is active when the change is made.
Subscribers(room) ==
    {c \in Clients : \/ conn[c] = "live" /\ roomId[c] = room
                     \/ previous[c].st = "live" /\ previous[c].room = room}

Broadcast(room, events) ==
    [c \in Clients |-> IF c \in Subscribers(room) THEN inbox[c] \cup events
                       ELSE inbox[c]]

InsertEvent(row) == [event |-> "INSERT", new |-> row]

DeleteEvent(row) == [event |-> "DELETE", old |-> [id |-> row.id]]

\* ------------------------------------------------------------- useCanvas

\* startDrawing .. endDrawing: the finished stroke, with the client's own
\* identifier and sequence 0.
\* Point objects: ref is the identity of the object (what !== compares), and
\* two of them have equal coordinates.
PointObjects ==
    {[ref |-> 1, x |-> 0, y |-> 0], [ref |-> 2, x |-> 0, y |-> 0],
     [ref |-> 3, x |-> 0, y |-> 1], [ref |-> 4, x |-> 0, y |-> 2],
     [ref |-> 5, x |-> 3, y |-> 4], [ref |-> 6, x |-> 6, y |-> 8]}

\* The values of minDistance tried.
MinDistances == {-1, 0, 1, 2, 5}

\* distance(p1, p2) >= minDistance: distance is the square root of the sum of
\* the squares, compared here without taking the root.
distanceAtLeast(p1, p2, minDistance) ==
    \/ minDistance <= 0
    \/ (p2.x - p1.x) * (p2.x - p1.x) + (p2.y - p1.y) * (p2.y - p1.y)
            >= minDistance * minDistance

\* The loop of filterNearbyPoints from index i on.
RECURSIVE FilterLoop(_, _, _, _)
FilterLoop(points, minDistance, i, filtered) ==
    IF i > Len(points)
    THEN filtered
    ELSE FilterLoop(points, minDistance, i + 1,
            IF distanceAtLeast(filtered[Len(filtered)], points[i], minDistance)
            THEN Append(filtered, points[i])
            ELSE filtered)

\* filterNearbyPoints without the push of the last point.
filterNearbyPointsUnforced(points, minDistance) ==
    IF Len(points) < 2
    THEN points
    ELSE FilterLoop(points, minDistance, 2, <<points[1]>>)

filterNearbyPoints(points, minDistance) ==
    IF Len(points) < 2
    THEN points
    ELSE LET filtered == FilterLoop(points, minDistance, 2, <<points[1]>>)
         IN  IF filtered[Len(filtered)].ref # points[Len(points)].ref
             THEN Append(filtered, points[Len(points)])
             ELSE filtered

\* Where the pointer can be at a mouse event.
EventCoordinates == {[x |-> 0, y |-> 0], [x |-> 3, y |-> 4]}

\* getEventCoordinates: a new point object, the n-th of its stroke.
NewPoint(xy, n) == [ref |-> n, x |-> xy.x, y |-> xy.y]

\* Math.max(1, toolSettings.width / 4).
MinDist(width) == IF width < 4 THEN 1 ELSE width \div 4

\* A stroke as it is stored: its points without their identity.
Coordinates(points) ==
    [i \in DOMAIN points |-> [x |-> points[i].x, y |-> points[i].y]]

FinalStroke(c) ==
    [id |-> <<c, strokeCount[c] + 1>>, type |-> "stroke", userId |-> UserId(c),
     color |-> "#1a1a2e", width |-> 4, tool |-> "brush",
     points |-> <<[x |-> strokeCount[c] + 1, y |-> strokeCount[c] + 1]>>,
     sequence |-> 0]

\* An addOperation that appends in arrival order.
addOperationUnsorted(prev, operation) ==
    IF \E i \in 1..Len(prev) : prev[i].id = operation.id THEN prev
    ELSE Append(prev, operation)

\* An addOperation that does not look for the identifier.
addOperationAgain(prev, operation) == SortBySequence(Append(prev, operation))

\* addOperation
addOperation(prev, operation) ==
    IF \E i \in 1..Len(prev) : prev[i].id = operation.id THEN prev
    ELSE SortBySequence(Append(prev, operation))

\* removeOperation
removeOperation(prev, id) == SelectSeq(prev, LAMBDA op : op.id # id)

\* The array in reverse order.
Reverse(s) == [i \in 1..Len(s) |-> s[Len(s) + 1 - i]]

\* A setOperations whose sort turns around the operations of equal sequence.
setOperationsUnstable(ops) == SortBySequence(Reverse(ops))

\* setOperations
setOperations(ops) == SortBySequence(ops)

\* ---------------------------------------------------------------- helpers

NoTrack == [st |-> "none"]

\* What a call's record keeps, as history, of the room at the time of the
\* call: its operations and its redo stack.
Before(room) ==
    [operations |-> {r \in operations : r.room_id = room},
     redo_stack |-> {e \in redo_stack : e.room_id = room}]

Room(c) == roomId[c]

\* The clients other than c whose pending call has an append still to come.
Appending(c) ==
    {d \in Clients \ {c} :
        \/ call[d].op = "commitStroke"
        \/ call[d].op = "redoLast" /\ call[d].pc = "insert"}

\* The entry of the history of appends for a row stored by client c: who
\* appended it, which calls were appending then, which clients the INSERT
\* event was sent to, and the identifier the stroke had on its author's canvas.
Accepted(c, row) ==
    [room_id |-> row.room_id, sequence |-> row.sequence, by |-> c,
     kind |-> call[c].op, during |-> Appending(c),
     to |-> Subscribers(row.room_id), data_id |-> row.data.id,
     redo_id |-> IF call[c].op = "redoLast" THEN call[c].redoItem.id ELSE None]

\* No undoLast of the room is under way.
NoUndoPending(room) ==
    \A d \in Clients : roomId[d] = room => call[d].op # "undoLast"

\* A change of the room's log is not seen by a client whose select has run
\* and whose subscription is not active yet.
Missed(room) ==
    [c \in Clients |->
        missed[c] \/ (roomId[c] = room /\ conn[c] \in {"fetched", "subscribing"})]

\* Another client of c's room has a call under way whose statements are not
\* all done.
Overlaps(c) ==
    \E d \in Clients \ {c} :
        roomId[d] = Room(c) /\ call[d] # Idle /\ call[d].pc # "return"

\* The history of consecutive undoLast and redoLast calls of a room ends: a
\* commit has been started, or two calls overlap.
Void(room) == [lifo EXCEPT ![room].ok = FALSE]

\* A client can issue a command once its SyncService exists (the effect of
\* useCollaboration has run); one command of a client is pending at a time.
CanCall(c) == conn[c] # "disconnected" /\ call[c] = Idle /\ budget > 0

\* The overlay shown until onStateSync has run covers the canvas.
isInitialized(c) ==
    \/ conn[c] \in {"subscribing", "live", "channelError"}
    \/ previous[c].st \in {"subscribing", "live"}

\* useCollaboration's isConnected: set by connect().then, cleared by its catch.
isConnected(c) ==
    \/ conn[c] \in {"subscribing", "live", "channelError"}
    \/ previous[c].st \in {"subscribing", "live"}

\* ------------------------------------------------------------------- Init

\* No updateCursor has been called and nothing was published.
NoCursorLog == [calls |-> 0, streamStart |-> -1, lastCall |-> -1, lastPublish |-> -1,
                dropped |-> {}]

SessionInit(calls) ==
    /\ fetched = [c \in Clients |-> <<>>]
    /\ inbox = [c \in Clients |-> {}]
    /\ call = [c \in Clients |-> Idle]
    /\ strokeCount = [c \in Clients |-> 0]
    /\ budget = calls
    /\ undone = {}
    /\ freshCommit = [r \in Rooms |-> FALSE]
    /\ missed = [c \in Clients |-> FALSE]
    /\ track = NoTrack
    /\ cleared = {}
    /\ toolSettings = [c \in Clients |-> [width |-> 4]]
    /\ currentStrokeRef = [c \in Clients |-> None]
    /\ pointBufferRef = [c \in Clients |-> <<>>]
    /\ now = 0
    /\ cursorThrottleRef = [c \in Clients |-> None]
    /\ tracked = [c \in Clients |-> None]
    /\ cursorLog = [c \in Clients |-> NoCursorLog]

\* No operation has been undone.
NoneUndone == [r \in Rooms |-> [ok |-> TRUE, stack |-> <<>>, lost |-> 0]]

\* No client has opened the page yet.
\* No earlier SyncService of the client has work pending.
NoPrevious == [st |-> "none"]

ClientInit(calls) ==
    /\ filterCall = None
    /\ pendingCommit = [c \in Clients |-> None]
    /\ loads = [c \in Clients |-> <<>>]
    /\ previous = [c \in Clients |-> NoPrevious]
    /\ conn = [c \in Clients |-> "disconnected"]
    /\ presence = [c \in Clients |-> "none"]
    /\ canvasOps = [c \in Clients |-> <<>>]
    /\ SessionInit(calls)

\* Both clients have connected, the log being as it is now, and are live.
LiveInit(calls) ==
    /\ filterCall = None
    /\ pendingCommit = [c \in Clients |-> None]
    /\ loads = [c \in Clients |-> <<>>]
    /\ previous = [c \in Clients |-> NoPrevious]
    /\ conn = [c \in Clients |-> "live"]
    /\ presence = [c \in Clients |-> "SUBSCRIBED"]
    /\ canvasOps = [c \in Clients |-> setOperations(MapRows(ListOrdered(Room(c))))]
    /\ SessionInit(calls)

\* The database as the migrations leave it; every client opens the default room.
Init ==
    /\ rooms = {DEFAULT_ROOM_ID}
    /\ operations = {}
    /\ redo_stack = {}
    /\ sequence_seq = 0
    /\ clock = 0
    /\ roomId = [c \in Clients |-> DEFAULT_ROOM_ID]
    /\ accepted = <<>>
    /\ lifo = NoneUndone
    /\ ClientInit(MaxCalls)

\* The same start, for sessions in which the users change rooms.
InitRooms ==
    /\ rooms = {DEFAULT_ROOM_ID}
    /\ operations = {}
    /\ redo_stack = {}
    /\ sequence_seq = 0
    /\ clock = 0
    /\ roomId = [c \in Clients |-> DEFAULT_ROOM_ID]
    /\ accepted = <<>>
    /\ lifo = NoneUndone
    /\ ClientInit(MaxCallsRooms)

\* The same start, for sessions in which requests can fail.
InitFaulty ==
    /\ rooms = {DEFAULT_ROOM_ID}
    /\ operations = {}
    /\ redo_stack = {}
    /\ sequence_seq = 0
    /\ clock = 0
    /\ roomId = [c \in Clients |-> DEFAULT_ROOM_ID]
    /\ accepted = <<>>
    /\ lifo = NoneUndone
    /\ ClientInit(MaxCallsFaulty)

\* One call of filterNearbyPoints: any array of at most MaxPoints point
\* objects, the same object possibly more than once, and any minDistance.
InitFilter ==
    /\ rooms = {DEFAULT_ROOM_ID}
    /\ operations = {}
    /\ redo_stack = {}
    /\ sequence_seq = 0
    /\ clock = 0
    /\ roomId = [c \in Clients |-> DEFAULT_ROOM_ID]
    /\ accepted = <<>>
    /\ lifo = NoneUndone
    /\ previous = [c \in Clients |-> NoPrevious]
    /\ conn = [c \in Clients |-> "disconnected"]
    /\ presence = [c \in Clients |-> "none"]
    /\ canvasOps = [c \in Clients |-> <<>>]
    /\ SessionInit(0)
    /\ \E n \in 0..MaxPoints : \E points \in [1..n -> PointObjects] :
       \E minDistance \in MinDistances :
            filterCall = [points |-> points, minDistance |-> minDistance,
                          returned |-> FALSE, result |-> <<>>]
    /\ pendingCommit = [c \in Clients |-> None]
    /\ loads = [c \in Clients |-> <<>>]

\* Both clients have opened the default room and are live; nothing is drawn.
InitDraw ==
    /\ rooms = {DEFAULT_ROOM_ID}
    /\ operations = {}
    /\ redo_stack = {}
    /\ sequence_seq = 0
    /\ clock = 0
    /\ roomId = [c \in Clients |-> DEFAULT_ROOM_ID]
    /\ accepted = <<>>
    /\ lifo = NoneUndone
    /\ LiveInit(MaxStrokes)

\* The same database; both clients have opened the default room and are live.
InitLive ==
    /\ rooms = {DEFAULT_ROOM_ID}
    /\ operations = {}
    /\ redo_stack = {}
    /\ sequence_seq = 0
    /\ clock = 0
    /\ roomId = [c \in Clients |-> DEFAULT_ROOM_ID]
    /\ accepted = <<>>
    /\ lifo = NoneUndone
    /\ LiveInit(MaxCallsLive)

\* A stroke committed in an earlier session, by a user who has left.
SeedRow(room, n) ==
    [id |-> <<"row", n>>, room_id |-> room, user_id |-> "P", sequence |-> n,
     type |-> "stroke",
     data |-> [id |-> <<"P", n>>, color |-> "#1a1a2e", width |-> 4,
               tool |-> "brush", points |-> <<[x |-> n, y |-> n]>>]]

\* The redo_stack row of an undo of that stroke at time t.
SeedRedo(room, n, t) ==
    [id |-> <<"redo", t>>, room_id |-> room, original_id |-> <<"row", n>>,
     operation_data |-> SeedRow(room, n), deleted_at |-> t]

\* A database with a history, in which public.rooms has a row for the other
\* room as well (the policy "Anyone can create rooms" lets any holder of the
\* public key insert one). In the default room SeedLog + k strokes were
\* committed and the last k of them undone, newest first, k being the limit
\* of the redo stack or one less; then, in the other room, two strokes were
\* committed and the second undone. Client A has opened the default room,
\* client B either room.
InitSeeded ==
    \E k \in {RedoLimit - 1, RedoLimit} :
        LET n == SeedLog + k
        IN  /\ rooms = Rooms
            /\ operations = {SeedRow(DEFAULT_ROOM_ID, i) : i \in 1..SeedLog}
                                \cup {SeedRow("r2", n + 1)}
            /\ redo_stack = {SeedRedo(DEFAULT_ROOM_ID, i, n - i + 1) :
                                i \in (SeedLog + 1)..n}
                                \cup {SeedRedo("r2", n + 2, k + 1)}
            /\ sequence_seq = n + 2
            /\ clock = k + 1
            /\ roomId \in {f \in [Clients -> Rooms] : f["A"] = DEFAULT_ROOM_ID}
            /\ accepted = [i \in 1..(n + 2) |->
                            [room_id |-> IF i <= n THEN DEFAULT_ROOM_ID ELSE "r2",
                             sequence |-> i, by |-> "P", kind |-> "commitStroke",
                             during |-> {}, to |-> {}, data_id |-> <<"P", i>>]]
            /\ lifo = [r \in Rooms |->
                        [ok |-> TRUE, lost |-> 0,
                         stack |-> IF r = DEFAULT_ROOM_ID
                                   THEN [j \in 1..k |-> SeedRow(r, n - j + 1)]
                                   ELSE <<SeedRow(r, n + 2)>>]]
            /\ LiveInit(MaxCallsSeeded)

\* Two live clients of the default room, whose log holds strokes of a user
\* who has left. Some of the strokes were in the log when the clients
\* connected and are on their canvases; the INSERT events of the others have
\* been sent to both clients and none has been handled yet.
InitDeliver ==
    \E S \in SUBSET (1..MaxDeliver) :
        \E T \in SUBSET S :
            /\ rooms = {DEFAULT_ROOM_ID}
            /\ operations = {SeedRow(DEFAULT_ROOM_ID, i) : i \in S}
            /\ redo_stack = {}
            /\ sequence_seq = MaxDeliver
            /\ clock = 0
            /\ roomId = [c \in Clients |-> DEFAULT_ROOM_ID]
            /\ accepted = [i \in 1..MaxDeliver |->
                            [room_id |-> DEFAULT_ROOM_ID, sequence |-> i, by |-> "P",
                             kind |-> "commitStroke", during |-> {},
                             to |-> IF i \in S \ T THEN Clients ELSE {},
                             data_id |-> <<"P", i>>]]
            /\ conn = [c \in Clients |-> "live"]
            /\ presence = [c \in Clients |-> "SUBSCRIBED"]
            /\ previous = [c \in Clients |-> NoPrevious]
            /\ canvasOps = [c \in Clients |->
                    setOperations(MapRows(OrderRows(
                        {SeedRow(DEFAULT_ROOM_ID, i) : i \in T})))]
            /\ fetched = [c \in Clients |-> <<>>]
            /\ inbox = [c \in Clients |->
                    {InsertEvent(SeedRow(DEFAULT_ROOM_ID, i)) : i \in S \ T}]
            /\ call = [c \in Clients |-> Idle]
            /\ strokeCount = [c \in Clients |-> 0]
            /\ budget = 0
            /\ undone = {}
            /\ freshCommit = [r \in Rooms |-> FALSE]
            /\ missed = [c \in Clients |-> FALSE]
            /\ track = NoTrack
            /\ cleared = {}
            /\ toolSettings = [c \in Clients |-> [width |-> 4]]
            /\ currentStrokeRef = [c \in Clients |-> None]
            /\ pointBufferRef = [c \in Clients |-> <<>>]
            /\ now = 0
            /\ cursorThrottleRef = [c \in Clients |-> None]
            /\ tracked = [c \in Clients |-> None]
            /\ cursorLog = [c \in Clients |-> NoCursorLog]
            /\ filterCall = None
            /\ pendingCommit = [c \in Clients |-> None]
            /\ loads = [c \in Clients |-> <<>>]
    /\ loads = [c \in Clients |-> <<>>]
            /\ lifo = NoneUndone

\* The operations in the lists of SpecReplay: two of the log with different
\* sequences, a third with the sequence of the second, and a stroke of the
\* client's own with sequence 0.
ReplayOps ==
    {rowToOperation(SeedRow(DEFAULT_ROOM_ID, 1)),
     rowToOperation(SeedRow(DEFAULT_ROOM_ID, 2)),
     [rowToOperation(SeedRow(DEFAULT_ROOM_ID, 2)) EXCEPT !.id = <<"row", 3>>],
     [rowToOperation(SeedRow(DEFAULT_ROOM_ID, 2)) EXCEPT
        !.id = <<"P", 4>>, !.sequence = 0]}

\* Each client holds a list of at most MaxReplay operations, in any order,
\* to give to setOperations.
InitReplay ==
    /\ rooms = {DEFAULT_ROOM_ID}
    /\ operations = {}
    /\ redo_stack = {}
    /\ sequence_seq = 0
    /\ clock = 0
    /\ roomId = [c \in Clients |-> DEFAULT_ROOM_ID]
    /\ accepted = <<>>
    /\ lifo = NoneUndone
    /\ previous = [c \in Clients |-> NoPrevious]
    /\ conn = [c \in Clients |-> "live"]
    /\ presence = [c \in Clients |-> "SUBSCRIBED"]
    /\ canvasOps = [c \in Clients |-> <<>>]
    /\ filterCall = None
    /\ pendingCommit = [c \in Clients |-> None]
    /\ loads = [c \in Clients |-> <<>>]
    /\ inbox = [c \in Clients |-> {}]
    /\ call = [c \in Clients |-> Idle]
    /\ strokeCount = [c \in Clients |-> 0]
    /\ budget = 0
    /\ undone = {}
    /\ freshCommit = [r \in Rooms |-> FALSE]
    /\ missed = [c \in Clients |-> FALSE]
    /\ track = NoTrack
    /\ cleared = {}
    /\ toolSettings = [c \in Clients |-> [width |-> 4]]
    /\ currentStrokeRef = [c \in Clients |-> None]
    /\ pointBufferRef = [c \in Clients |-> <<>>]
    /\ now = 0
    /\ cursorThrottleRef = [c \in Clients |-> None]
    /\ tracked = [c \in Clients |-> None]
    /\ cursorLog = [c \in Clients |-> NoCursorLog]
    /\ \E n \in 0..MaxReplay : \E ops \in [1..n -> ReplayOps] :
            fetched = [c \in Clients |-> ops]

\* A database in which other users have committed SeedLog operations to the
\* default room; no client is connected.
InitCursor ==
    /\ rooms = {DEFAULT_ROOM_ID}
    /\ operations = {SeedRow(DEFAULT_ROOM_ID, i) : i \in 1..SeedLog}
    /\ redo_stack = {}
    /\ sequence_seq = SeedLog
    /\ clock = 0
    /\ roomId = [c \in Clients |-> DEFAULT_ROOM_ID]
    /\ accepted = [i \in 1..SeedLog |->
                    [room_id |-> DEFAULT_ROOM_ID, sequence |-> i, by |-> "P",
                     kind |-> "commitStroke", during |-> {}, to |-> {},
                     data_id |-> <<"P", i>>]]
    /\ lifo = NoneUndone
    /\ ClientInit(MaxCallsCursor)

\* Two live clients of the default room, in which other users committed
\* SeedLog + 1 strokes and undid the last one.
InitErrors ==
    /\ rooms = {DEFAULT_ROOM_ID}
    /\ operations = {SeedRow(DEFAULT_ROOM_ID, i) : i \in 1..SeedLog}
    /\ redo_stack = {SeedRedo(DEFAULT_ROOM_ID, SeedLog + 1, 1)}
    /\ sequence_seq = SeedLog + 1
    /\ clock = 1
    /\ roomId = [c \in Clients |-> DEFAULT_ROOM_ID]
    /\ accepted = [i \in 1..(SeedLog + 1) |->
                    [room_id |-> DEFAULT_ROOM_ID, sequence |-> i, by |-> "P",
                     kind |-> "commitStroke", during |-> {}, to |-> {},
                     data_id |-> <<"P", i>>]]
    /\ lifo = [r \in Rooms |->
                [ok |-> TRUE, lost |-> 0,
                 stack |-> IF r = DEFAULT_ROOM_ID
                           THEN <<SeedRow(r, SeedLog + 1)>> ELSE <<>>]]
    /\ LiveInit(MaxCallsErrors)

\* Two live clients of the default room, with the database as the migrations
\* leave it.
InitQuick ==
    /\ rooms = {DEFAULT_ROOM_ID}
    /\ operations = {}
    /\ redo_stack = {}
    /\ sequence_seq = 0
    /\ clock = 0
    /\ roomId = [c \in Clients |-> DEFAULT_ROOM_ID]
    /\ accepted = <<>>
    /\ lifo = NoneUndone
    /\ LiveInit(MaxCallsQuick)

\* ---------------------------------------------------------------- connect

\* useCollaboration's effect: new SyncService(...), connect() is called and
\* its select is on its way.
Connect(c) ==
    /\ conn[c] = "disconnected"
    /\ conn' = [conn EXCEPT ![c] = "connecting"]
    /\ UNCHANGED <<server, roomId, fetched, canvasOps, inbox, call, strokeCount,
                   budget, history>>
    /\ UNCHANGED <<presence, previous>>
    /\ UNCHANGED drawing
    /\ UNCHANGED cursors

\* connect: the select of the room's operations, ordered by sequence.
ConnectSelect(c) ==
    /\ conn[c] = "connecting"
    /\ fetched' = [fetched EXCEPT ![c] = MapRows(ListOrdered(Room(c)))]
    /\ conn' = [conn EXCEPT ![c] = "fetched"]
    /\ UNCHANGED <<server, roomId, canvasOps, inbox, call, strokeCount, budget,
                   history>>
    /\ UNCHANGED <<presence, previous>>
    /\ UNCHANGED drawing
    /\ UNCHANGED cursors

\* connect, after the select: both channels are created and subscribe() is
\* called without being awaited, the operations are returned and
\* useCollaboration hands them to onStateSync (canvas.setOperations).
ConnectReturn(c) ==
    /\ conn[c] = "fetched"
    /\ canvasOps' = [canvasOps EXCEPT ![c] = setOperations(fetched[c])]
    /\ fetched' = [fetched EXCEPT ![c] = <<>>]
    /\ conn' = [conn EXCEPT ![c] = "subscribing"]
    /\ UNCHANGED <<server, roomId, inbox, call, strokeCount, budget, history>>
    /\ presence' = [presence EXCEPT ![c] = "joining"]
    /\ UNCHANGED previous
    /\ UNCHANGED drawing
    /\ UNCHANGED cursors

\* The subscribe callback with status SUBSCRIBED: from now on the changes of
\* the room are sent to this client.
Subscribed(c) ==
    /\ conn[c] = "subscribing"
    /\ conn' = [conn EXCEPT ![c] = "live"]
    /\ UNCHANGED <<server, roomId, fetched, canvasOps, inbox, call, strokeCount,
                   budget, history>>
    /\ UNCHANGED <<presence, previous>>
    /\ UNCHANGED drawing
    /\ UNCHANGED cursors

\* handleRoomChange(r): the canvas is cleared and roomId is set; the effect of
\* useCollaboration is cleaned up (disconnect of the current SyncService) and
\* run again (a new SyncService for r, connect). disconnect removes the
\* channels that exist; a connect whose select has not returned has created
\* none and goes on after it.
SwitchRoom(c, r) ==
    /\ r # roomId[c]
    /\ conn[c] # "disconnected"
    /\ call[c] = Idle
    /\ budget > 0
    /\ previous[c].st = "none"
    /\ budget' = budget - 1
    /\ roomId' = [roomId EXCEPT ![c] = r]
    /\ canvasOps' = [canvasOps EXCEPT ![c] = <<>>]
    /\ conn' = [conn EXCEPT ![c] = "connecting"]
    /\ presence' = [presence EXCEPT ![c] = "none"]
    /\ fetched' = [fetched EXCEPT ![c] = <<>>]
    /\ inbox' = [inbox EXCEPT ![c] = {}]
    /\ previous' = [previous EXCEPT ![c] =
            IF conn[c] \in {"connecting", "fetched"}
            THEN [st |-> conn[c], room |-> roomId[c], fetched |-> fetched[c]]
            ELSE NoPrevious]
    /\ cursorThrottleRef' = [cursorThrottleRef EXCEPT ![c] =
            IF @ = None THEN @ ELSE [@ EXCEPT !.stale = TRUE]]
    /\ tracked' = [tracked EXCEPT ![c] = None]
    /\ UNCHANGED <<server, call, strokeCount, history, now, cursorLog>>
    /\ UNCHANGED drawing

\* connect of a disconnected SyncService: its select.
StaleConnectSelect(c) ==
    /\ previous[c].st = "connecting"
    /\ previous' = [previous EXCEPT ![c] =
            [st |-> "fetched", room |-> @.room,
             fetched |-> MapRows(ListOrdered(@.room))]]
    /\ UNCHANGED <<server, roomId, conn, presence, fetched, canvasOps, inbox,
                   call, strokeCount, budget, history>>
    /\ UNCHANGED drawing
    /\ UNCHANGED cursors

\* connect of a disconnected SyncService, after the select: the channels are
\* created and subscribed, and its operations go to onStateSync.
StaleConnectReturn(c) ==
    /\ previous[c].st = "fetched"
    /\ canvasOps' = [canvasOps EXCEPT ![c] = setOperations(previous[c].fetched)]
    /\ previous' = [previous EXCEPT ![c] =
            [st |-> "subscribing", room |-> @.room, fetched |-> <<>>]]
    /\ UNCHANGED <<server, roomId, conn, presence, fetched, inbox, call,
                   strokeCount, budget, history>>
    /\ UNCHANGED drawing
    /\ UNCHANGED cursors

\* The subscribe callback of a disconnected SyncService with status
\* SUBSCRIBED: the changes of the room it was made for are sent to the client.
StaleSubscribed(c) ==
    /\ previous[c].st = "subscribing"
    /\ previous' = [previous EXCEPT ![c] =
            [st |-> "live", room |-> @.room, fetched |-> <<>>]]
    /\ UNCHANGED <<server, roomId, conn, presence, fetched, canvasOps, inbox,
                   call, strokeCount, budget, history>>
    /\ UNCHANGED drawing
    /\ UNCHANGED cursors

\* connect: the select fails, connect throws, and the catch of
\* useCollaboration sets isConnected to false.
ConnectFetchFail(c) ==
    /\ conn[c] = "connecting"
    /\ conn' = [conn EXCEPT ![c] = "fetchFailed"]
    /\ UNCHANGED <<server, roomId, presence, previous, fetched, canvasOps, inbox, call,
                   strokeCount, budget, history>>
    /\ UNCHANGED drawing
    /\ UNCHANGED cursors

\* The subscribe callback of the operations channel with a status other than
\* SUBSCRIBED (CHANNEL_ERROR, TIMED_OUT): SyncService.isConnected is false,
\* nothing else happens.
SubscribeFail(c) ==
    /\ conn[c] = "subscribing"
    /\ conn' = [conn EXCEPT ![c] = "channelError"]
    /\ UNCHANGED <<server, roomId, presence, previous, fetched, canvasOps, inbox, call,
                   strokeCount, budget, history>>
    /\ UNCHANGED drawing
    /\ UNCHANGED cursors

\* The subscribe callback of the presence channel with status SUBSCRIBED:
\* the client's presence is tracked.
PresenceSubscribed(c) ==
    /\ presence[c] = "joining"
    /\ presence' = [presence EXCEPT ![c] = "SUBSCRIBED"]
    /\ tracked' = [tracked EXCEPT ![c] = [room |-> Room(c), cursor |-> None]]
    /\ UNCHANGED <<server, roomId, conn, previous, fetched, canvasOps, inbox, call,
                   strokeCount, budget, history, now, cursorThrottleRef, cursorLog>>
    /\ UNCHANGED drawing

\* The subscribe callback of the presence channel with another status.
PresenceFail(c) ==
    /\ presence[c] = "joining"
    /\ presence' = [presence EXCEPT ![c] = "CHANNEL_ERROR"]
    /\ UNCHANGED <<server, roomId, conn, previous, fetched, canvasOps, inbox, call,
                   strokeCount, budget, history>>
    /\ UNCHANGED drawing
    /\ UNCHANGED cursors

\* ----------------------------------------------------------------- cursor

\* Where updateCursor is told the pointer is: null after a mouse leave.
CursorPositions == {None, [x |-> 3, y |-> 4]}

\* useCollaboration.updateCursor(position): nothing without a SyncService;
\* else the pending timeout is cleared and a new one of CursorDelay set, whose
\* callback holds the SyncService of this moment.
updateCursor(c, position) ==
    /\ conn[c] # "disconnected"
    /\ budget > 0
    /\ budget' = budget - 1
    /\ cursorThrottleRef' = [cursorThrottleRef EXCEPT ![c] =
            [due |-> now + CursorDelay, cursor |-> position, stale |-> FALSE]]
    /\ cursorLog' = [cursorLog EXCEPT ![c] =
            [calls |-> @.calls + 1,
             streamStart |-> IF @.lastCall >= 0 /\ now - @.lastCall < CursorDelay
                             THEN @.streamStart ELSE now,
             lastCall |-> now,
             lastPublish |-> @.lastPublish,
             dropped |-> @.dropped]]
    /\ UNCHANGED <<server, roomId, conn, presence, previous, fetched, canvasOps,
                   inbox, call, strokeCount, history, now, tracked>>
    /\ UNCHANGED drawing

\* The SyncService of a timeout has its presence channel: the channels are
\* created when connect's select has returned and removed by disconnect, and
\* a connect that was pending at the disconnect creates them afterwards.
HasPresenceChannel(c) ==
    IF cursorThrottleRef[c].stale
    THEN previous[c].st \in {"subscribing", "live"}
    ELSE presence[c] # "none"

\* The timeout fires and SyncService.updateCursor tracks the cursor on its
\* presence channel.
CursorTimer(c) ==
    /\ cursorThrottleRef[c] # None
    /\ cursorThrottleRef[c].due <= now
    /\ HasPresenceChannel(c)
    /\ cursorThrottleRef[c].stale \/ presence[c] # "CHANNEL_ERROR"
    /\ tracked' = [tracked EXCEPT ![c] =
            [room |-> IF cursorThrottleRef[c].stale THEN previous[c].room
                      ELSE Room(c),
             cursor |-> cursorThrottleRef[c].cursor]]
    /\ cursorLog' = [cursorLog EXCEPT ![c].lastPublish = now]
    /\ cursorThrottleRef' = [cursorThrottleRef EXCEPT ![c] = None]
    /\ UNCHANGED <<server, roomId, conn, presence, previous, fetched, canvasOps,
                   inbox, call, strokeCount, budget, history, now>>
    /\ UNCHANGED drawing

\* The timeout fires and the track of SyncService.updateCursor fails.
CursorTrackFail(c) ==
    /\ cursorThrottleRef[c] # None
    /\ cursorThrottleRef[c].due <= now
    /\ HasPresenceChannel(c)
    /\ cursorThrottleRef' = [cursorThrottleRef EXCEPT ![c] = None]
    /\ cursorLog' = [cursorLog EXCEPT ![c].dropped = @ \cup {"failed"}]
    /\ UNCHANGED <<server, roomId, conn, presence, previous, fetched, canvasOps,
                   inbox, call, strokeCount, budget, history, now, tracked>>
    /\ UNCHANGED drawing

\* A SyncService.updateCursor that asks for another timeout when it has no
\* presence channel.
CursorDropRetry(c) ==
    /\ cursorThrottleRef[c] # None
    /\ cursorThrottleRef[c].due <= now
    /\ ~ HasPresenceChannel(c)
    /\ cursorThrottleRef' = [cursorThrottleRef EXCEPT ![c].due = now + CursorDelay]
    /\ cursorLog' = [cursorLog EXCEPT ![c].dropped = @ \cup {"no channel"}]
    /\ UNCHANGED <<server, roomId, conn, presence, previous, fetched, canvasOps,
                   inbox, call, strokeCount, budget, history, now, tracked>>
    /\ UNCHANGED drawing

\* The timeout fires and SyncService.updateCursor returns at once: it has no
\* presence channel.
CursorDrop(c) ==
    /\ cursorThrottleRef[c] # None
    /\ cursorThrottleRef[c].due <= now
    /\ ~ HasPresenceChannel(c)
    /\ cursorThrottleRef' = [cursorThrottleRef EXCEPT ![c] = None]
    /\ cursorLog' = [cursorLog EXCEPT ![c].dropped = @ \cup {"no channel"}]
    /\ UNCHANGED <<server, roomId, conn, presence, previous, fetched, canvasOps,
                   inbox, call, strokeCount, budget, history, now, tracked>>
    /\ UNCHANGED drawing

\* The times at which a timeout is due.
Dues == {cursorThrottleRef[c].due : c \in {d \in Clients : cursorThrottleRef[d] # None}}

\* Time passes, up to the next timeout: a timeout fires when it is due.
Tick ==
    /\ now < MaxTime
    /\ \A t \in Dues : t > now
    /\ now' = IF \E t \in Dues : t < now + TickMs
              THEN CHOOSE t \in Dues : \A u \in Dues : t <= u
              ELSE now + TickMs
    /\ UNCHANGED <<server, roomId, conn, presence, previous, fetched, canvasOps,
                   inbox, call, strokeCount, budget, history, cursorThrottleRef,
                   tracked, cursorLog>>
    /\ UNCHANGED drawing

\* ---------------------------------------------------------------- drawing

\* updateSettings({width}).
updateSettings(c, width) ==
    /\ toolSettings[c].width # width
    /\ toolSettings' = [toolSettings EXCEPT ![c].width = width]
    /\ UNCHANGED <<server, roomId, conn, presence, previous, fetched, canvasOps,
                   inbox, call, strokeCount, budget, history, currentStrokeRef,
                   pointBufferRef, filterCall, pendingCommit, loads>>
    /\ UNCHANGED cursors

\* startDrawing (mouse down, touch start): a new stroke with a new id and the
\* point of the event; a stroke in progress is replaced.
startDrawing(c, xy) ==
    /\ CanCall(c)
    /\ isInitialized(c)
    /\ budget' = budget - 1
    /\ strokeCount' = [strokeCount EXCEPT ![c] = @ + 1]
    /\ currentStrokeRef' = [currentStrokeRef EXCEPT ![c] =
            [id |-> <<c, strokeCount[c] + 1>>, type |-> "stroke",
             userId |-> UserId(c), color |-> "#1a1a2e",
             width |-> toolSettings[c].width, tool |-> "brush",
             points |-> <<NewPoint(xy, 1)>>, sequence |-> 0]]
    /\ pointBufferRef' = [pointBufferRef EXCEPT ![c] = <<NewPoint(xy, 1)>>]
    /\ UNCHANGED <<server, roomId, conn, presence, previous, fetched, canvasOps,
                   inbox, call, history, toolSettings, filterCall, pendingCommit, loads>>
    /\ UNCHANGED cursors

\* continueDrawing (mouse move, touch move): nothing without a stroke in
\* progress; else the point is buffered and the stroke shown is the filtered
\* buffer.
continueDrawing(c, xy) ==
    /\ currentStrokeRef[c] # None
    /\ Len(pointBufferRef[c]) <= MaxMoves
    /\ LET buffer == Append(pointBufferRef[c],
                            NewPoint(xy, Len(pointBufferRef[c]) + 1))
       IN  /\ pointBufferRef' = [pointBufferRef EXCEPT ![c] = buffer]
           /\ currentStrokeRef' = [currentStrokeRef EXCEPT ![c].points =
                    filterNearbyPoints(buffer, MinDist(toolSettings[c].width))]
    /\ UNCHANGED <<server, roomId, conn, presence, previous, fetched, canvasOps,
                   inbox, call, strokeCount, budget, history, toolSettings,
                   filterCall, pendingCommit, loads>>
    /\ UNCHANGED cursors

\* endDrawing that leaves the stroke in progress where it is.
endDrawingAgain(c) ==
    IF currentStrokeRef[c] = None
    THEN UNCHANGED vars
    ELSE LET points == filterNearbyPoints(pointBufferRef[c],
                                          MinDist(toolSettings[c].width))
             finalStroke == [currentStrokeRef[c] EXCEPT
                                !.points = Coordinates(points)]
         IN  /\ call[c] = Idle
             /\ IF Len(points) > 0
                THEN /\ canvasOps' = [canvasOps EXCEPT ![c] =
                                        Append(@, finalStroke)]
                     /\ call' = [call EXCEPT ![c] =
                                    [op |-> "commitStroke",
                                     pc |-> "clearRedoStack",
                                     stroke |-> finalStroke,
                                     before |-> Before(Room(c))]]
                ELSE UNCHANGED <<canvasOps, call>>
             /\ track' = NoTrack
             /\ lifo' = Void(Room(c))
             /\ UNCHANGED <<server, roomId, conn, presence, previous, fetched,
                            inbox, strokeCount, budget, accepted, undone,
                            freshCommit, missed, cleared, toolSettings,
                            currentStrokeRef, pointBufferRef, filterCall, pendingCommit, loads, cursors>>

\* endDrawing (mouse up, mouse leave, touch end): nothing without a stroke in
\* progress; else the stroke with the filtered buffer as its points goes to
\* the Canvas State and to onStrokeComplete, which starts commitStroke, and
\* no stroke is in progress any more.
endDrawing(c) ==
    IF currentStrokeRef[c] = None
    THEN UNCHANGED vars
    ELSE LET points == filterNearbyPoints(pointBufferRef[c],
                                          MinDist(toolSettings[c].width))
             finalStroke == [currentStrokeRef[c] EXCEPT
                                !.points = Coordinates(points)]
         IN  /\ call[c] = Idle
             /\ IF Len(points) > 0
                THEN /\ canvasOps' = [canvasOps EXCEPT ![c] =
                                        Append(@, finalStroke)]
                     /\ call' = [call EXCEPT ![c] =
                                    [op |-> "commitStroke",
                                     pc |-> "clearRedoStack",
                                     stroke |-> finalStroke,
                                     before |-> Before(Room(c))]]
                ELSE UNCHANGED <<canvasOps, call>>
             /\ currentStrokeRef' = [currentStrokeRef EXCEPT ![c] = None]
             /\ pointBufferRef' = [pointBufferRef EXCEPT ![c] = <<>>]
             /\ track' = NoTrack
             /\ lifo' = Void(Room(c))
             /\ UNCHANGED <<server, roomId, conn, presence, previous, fetched,
                            inbox, strokeCount, budget, accepted, undone,
                            freshCommit, missed, cleared, toolSettings,
                            filterCall, pendingCommit, loads, cursors>>

\* ----------------------------------------------------------- commitStroke

\* endDrawing: the stroke is appended to the local operations and handed to
\* onStrokeComplete, which calls commitStroke.
EndDrawing(c) ==
    /\ CanCall(c)
    /\ isInitialized(c)
    /\ canvasOps' = [canvasOps EXCEPT ![c] = Append(@, FinalStroke(c))]
    /\ strokeCount' = [strokeCount EXCEPT ![c] = @ + 1]
    /\ call' = [call EXCEPT ![c] =
                    [op |-> "commitStroke", pc |-> "clearRedoStack",
                     stroke |-> FinalStroke(c), before |-> Before(Room(c))]]
    /\ budget' = budget - 1
    /\ track' = NoTrack
    /\ UNCHANGED <<server, roomId, conn, fetched, inbox, accepted, undone,
                   freshCommit, missed>>
    /\ lifo' = Void(Room(c))
    /\ UNCHANGED <<presence, previous>>
    /\ UNCHANGED cleared
    /\ UNCHANGED drawing
    /\ UNCHANGED cursors

\* commitStroke: await this.clearRedoStack().
CommitClearRedoStack(c) ==
    /\ call[c].op = "commitStroke"
    /\ call[c].pc = "clearRedoStack"
    /\ redo_stack' = redo_stack \ RoomRedo(Room(c))
    /\ call' = [call EXCEPT ![c].pc = "insert"]
    /\ track' = NoTrack
    /\ UNCHANGED <<rooms, operations, sequence_seq, clock, roomId, conn, fetched,
                   canvasOps, inbox, strokeCount, budget, accepted, undone,
                   freshCommit, missed>>
    /\ lifo' = Void(Room(c))
    /\ UNCHANGED <<presence, previous>>
    /\ UNCHANGED cleared
    /\ UNCHANGED drawing
    /\ UNCHANGED cursors

\* commitStroke: the insert into operations, and its return.
CommitInsert(c) ==
    /\ call[c].op = "commitStroke"
    /\ call[c].pc = "insert"
    /\ Room(c) \in rooms
    /\ LET row == StrokeRow(Room(c), UserId(c), call[c].stroke)
       IN  /\ operations' = operations \cup {row}
           /\ inbox' = Broadcast(Room(c), {InsertEvent(row)})
           /\ accepted' = Append(accepted, Accepted(c, row))
    /\ sequence_seq' = sequence_seq + 1
    /\ call' = [call EXCEPT ![c] = Idle]
    /\ freshCommit' = [freshCommit EXCEPT ![Room(c)] = NoUndoPending(Room(c))]
    /\ missed' = Missed(Room(c))
    /\ track' = NoTrack
    /\ UNCHANGED <<rooms, redo_stack, clock, roomId, conn, fetched, canvasOps,
                   strokeCount, budget, undone>>
    /\ lifo' = Void(Room(c))
    /\ UNCHANGED <<presence, previous>>
    /\ UNCHANGED cleared
    /\ UNCHANGED drawing
    /\ UNCHANGED cursors

\* commitStroke: the insert fails and commitStroke returns null;
\* useCollaboration.commitStroke drops the result and onStrokeComplete goes on.
CommitInsertFail(c) ==
    /\ call[c].op = "commitStroke"
    /\ call[c].pc = "insert"
    /\ call' = [call EXCEPT ![c] = Idle]
    /\ track' = NoTrack
    /\ UNCHANGED <<server, roomId, conn, presence, previous, fetched, canvasOps, inbox,
                   strokeCount, budget, accepted, undone, freshCommit, missed, lifo>>
    /\ UNCHANGED cleared
    /\ UNCHANGED drawing
    /\ UNCHANGED cursors

\* commitStroke in a room with no row in public.rooms: the insert violates
\* the foreign key of operations.room_id after the default of sequence has
\* been taken, and commitStroke returns null.
CommitInsertRefused(c) ==
    /\ call[c].op = "commitStroke"
    /\ call[c].pc = "insert"
    /\ Room(c) \notin rooms
    /\ sequence_seq' = sequence_seq + 1
    /\ call' = [call EXCEPT ![c] = Idle]
    /\ track' = NoTrack
    /\ UNCHANGED <<rooms, operations, redo_stack, clock, roomId, conn, presence,
                   previous, fetched, canvasOps, inbox, strokeCount, budget,
                   accepted, undone, freshCommit, missed, lifo>>
    /\ UNCHANGED cleared
    /\ UNCHANGED drawing
    /\ UNCHANGED cursors

\* ------------------------------------------------------------ commitClear

\* handleClear: canvas.clear(), then commitClear is called.
StartClear(c) ==
    /\ CanCall(c)
    /\ canvasOps' = [canvasOps EXCEPT ![c] = <<>>]
    /\ call' = [call EXCEPT ![c] = [op |-> "commitClear", pc |-> "delete"]]
    /\ budget' = budget - 1
    /\ track' = NoTrack
    /\ UNCHANGED <<server, roomId, conn, fetched, inbox, strokeCount, accepted,
                   undone, freshCommit, missed>>
    /\ lifo' = Void(Room(c))
    /\ UNCHANGED <<presence, previous>>
    /\ UNCHANGED cleared
    /\ UNCHANGED drawing
    /\ UNCHANGED cursors

\* commitClear: delete from operations where room_id = roomId, and its return.
ClearDelete(c) ==
    /\ call[c].op = "commitClear"
    /\ operations' = operations \ RoomOps(Room(c))
    /\ inbox' = Broadcast(Room(c), {DeleteEvent(r) : r \in RoomOps(Room(c))})
    /\ call' = [call EXCEPT ![c] = Idle]
    /\ freshCommit' = [freshCommit EXCEPT ![Room(c)] = NoUndoPending(Room(c))]
    /\ missed' = IF RoomOps(Room(c)) = {} THEN missed ELSE Missed(Room(c))
    /\ track' = NoTrack
    /\ UNCHANGED <<rooms, redo_stack, sequence_seq, clock, roomId, conn, fetched,
                   canvasOps, strokeCount, budget, accepted, undone>>
    /\ lifo' = Void(Room(c))
    /\ cleared' = cleared \cup
            {[room |-> Room(c), id |-> r.data.id, to |-> Subscribers(Room(c))] :
                r \in RoomOps(Room(c))}
    /\ UNCHANGED <<presence, previous>>
    /\ UNCHANGED drawing
    /\ UNCHANGED cursors

\* --------------------------------------------------------------- undoLast

\* handleUndo calls undoLast: the select of the room's last operation. The
\* call's record keeps, as history, how many operations the log held then.
UndoSelect(c) ==
    /\ CanCall(c)
    /\ LET lastOp == LastOperation(Room(c))
       IN  IF lastOp = None
           THEN /\ call' = [call EXCEPT ![c] =
                                [op |-> "undoLast", pc |-> "return", result |-> None]]
                /\ track' = NoTrack
           ELSE /\ call' = [call EXCEPT ![c] =
                                [op |-> "undoLast", pc |-> "insertRedo",
                                 lastOp |-> lastOp,
                                 logSize |-> Cardinality(RoomOps(Room(c))),
                                 before |-> Before(Room(c))]]
                /\ track' = [st |-> "undoing", by |-> c, row |-> lastOp]
    /\ budget' = budget - 1
    /\ freshCommit' = [freshCommit EXCEPT ![Room(c)] = FALSE]
    /\ UNCHANGED <<server, roomId, conn, fetched, canvasOps, inbox, strokeCount,
                   accepted, undone, missed>>
    /\ lifo' = IF Overlaps(c) THEN Void(Room(c)) ELSE lifo
    /\ UNCHANGED <<presence, previous>>
    /\ UNCHANGED cleared
    /\ UNCHANGED drawing
    /\ UNCHANGED cursors

\* undoLast: the insert into redo_stack; its trigger runs in the same statement.
UndoInsertRedo(c) ==
    /\ call[c].op = "undoLast"
    /\ call[c].pc = "insertRedo"
    /\ redo_stack' = cleanup_old_redo_items(
                        redo_stack \cup {RedoItem(Room(c), call[c].lastOp)}, Room(c))
    /\ clock' = clock + 1
    /\ call' = [call EXCEPT ![c].pc = "delete"]
    /\ freshCommit' = [freshCommit EXCEPT ![Room(c)] = FALSE]
    /\ track' = IF track.st = "undoing" /\ track.by = c THEN track ELSE NoTrack
    /\ UNCHANGED <<rooms, operations, sequence_seq, roomId, conn, fetched, canvasOps,
                   inbox, strokeCount, budget, accepted, undone, missed>>
    /\ lifo' = [lifo EXCEPT
                    ![Room(c)].stack = Append(@, call[c].lastOp),
                    ![Room(c)].lost =
                        IF Len(lifo[Room(c)].stack) - @ >= RedoLimit THEN @ + 1 ELSE @]
    /\ UNCHANGED <<presence, previous>>
    /\ UNCHANGED cleared
    /\ UNCHANGED drawing
    /\ UNCHANGED cursors

\* undoLast: delete from operations where id = lastOp.id. Deleting a row that
\* is no longer there is no error and sends no event.
UndoDelete(c) ==
    /\ call[c].op = "undoLast"
    /\ call[c].pc = "delete"
    /\ LET lastOp == call[c].lastOp
           gone == {r \in operations : r.id = lastOp.id}
       IN  /\ operations' = operations \ gone
           /\ inbox' = Broadcast(Room(c), {DeleteEvent(r) : r \in gone})
           /\ call' = [call EXCEPT ![c] =
                           [op |-> "undoLast", pc |-> "return", result |-> lastOp.id,
                            lastOp |-> lastOp, logSize |-> call[c].logSize,
                            to |-> IF gone = {} THEN {} ELSE Subscribers(Room(c))]]
           /\ track' = IF track.st = "undoing" /\ track.by = c
                       THEN [st |-> "undone", row |-> lastOp]
                       ELSE NoTrack
           /\ missed' = IF gone = {} THEN missed ELSE Missed(Room(c))
    /\ freshCommit' = [freshCommit EXCEPT ![Room(c)] = FALSE]
    /\ UNCHANGED <<rooms, redo_stack, sequence_seq, clock, roomId, conn, fetched,
                   canvasOps, strokeCount, budget, accepted, undone>>
    /\ UNCHANGED lifo
    /\ UNCHANGED <<presence, previous>>
    /\ UNCHANGED cleared
    /\ UNCHANGED drawing
    /\ UNCHANGED cursors

\* handleUndo, after undoLast has returned: canvas.removeOperation(undoneId).
UndoReturn(c) ==
    /\ call[c].op = "undoLast"
    /\ call[c].pc = "return"
    /\ IF call[c].result = None
       THEN UNCHANGED <<canvasOps, undone>>
       ELSE /\ canvasOps' = [canvasOps EXCEPT ![c] =
                                removeOperation(@, call[c].result)]
            /\ undone' = undone \cup
                    {[row |-> call[c].lastOp, by |-> c, to |-> call[c].to]}
    /\ call' = [call EXCEPT ![c] = Idle]
    /\ UNCHANGED <<server, roomId, conn, fetched, inbox, strokeCount, budget,
                   accepted, freshCommit, missed, track>>
    /\ UNCHANGED lifo
    /\ UNCHANGED <<presence, previous>>
    /\ UNCHANGED cleared
    /\ UNCHANGED drawing
    /\ UNCHANGED cursors

\* --------------------------------------------------------------- redoLast

\* handleRedo calls redoLast: the select of the room's last redo_stack row.
RedoSelect(c) ==
    /\ CanCall(c)
    /\ LET redoItem == LastRedoItem(Room(c))
       IN  IF redoItem = None
           THEN /\ call' = [call EXCEPT ![c] =
                                [op |-> "redoLast", pc |-> "return", result |-> None]]
                /\ track' = IF track.st = "undone"
                            THEN [st |-> "redoNone", row |-> track.row]
                            ELSE NoTrack
           ELSE /\ call' = [call EXCEPT ![c] =
                                [op |-> "redoLast", pc |-> "insert",
                                 redoItem |-> redoItem,
                                 before |-> Before(Room(c))]]
                /\ track' = IF track.st = "undone"
                            THEN [st |-> "redoing", by |-> c, row |-> track.row]
                            ELSE NoTrack
    /\ budget' = budget - 1
    /\ UNCHANGED <<server, roomId, conn, fetched, canvasOps, inbox, strokeCount,
                   accepted, undone, freshCommit, missed>>
    /\ lifo' = IF Overlaps(c) THEN Void(Room(c)) ELSE lifo
    /\ UNCHANGED <<presence, previous>>
    /\ UNCHANGED cleared
    /\ UNCHANGED drawing
    /\ UNCHANGED cursors

\* redoLast: the insert of the removed operation as a new row.
RedoInsert(c) ==
    /\ call[c].op = "redoLast"
    /\ call[c].pc = "insert"
    /\ LET newOp == RedoRow(Room(c), UserId(c), call[c].redoItem.operation_data)
       IN  /\ operations' = operations \cup {newOp}
           /\ inbox' = Broadcast(Room(c), {InsertEvent(newOp)})
           /\ accepted' = Append(accepted, Accepted(c, newOp))
           /\ call' = [call EXCEPT ![c] =
                           [op |-> "redoLast", pc |-> "deleteRedo",
                            redoItem |-> call[c].redoItem, newOp |-> newOp]]
           /\ track' = IF track.st = "redoing" /\ track.by = c
                       THEN [st |-> "redone", by |-> c, row |-> track.row,
                             newOp |-> newOp]
                       ELSE NoTrack
    /\ sequence_seq' = sequence_seq + 1
    /\ missed' = Missed(Room(c))
    /\ UNCHANGED <<rooms, redo_stack, clock, roomId, conn, fetched, canvasOps,
                   strokeCount, budget, undone, freshCommit>>
    /\ UNCHANGED lifo
    /\ UNCHANGED <<presence, previous>>
    /\ UNCHANGED cleared
    /\ UNCHANGED drawing
    /\ UNCHANGED cursors

\* redoLast: delete from redo_stack where id = redoItem.id.
RedoDeleteRedo(c) ==
    /\ call[c].op = "redoLast"
    /\ call[c].pc = "deleteRedo"
    /\ redo_stack' = {e \in redo_stack : e.id # call[c].redoItem.id}
    /\ call' = [call EXCEPT ![c] =
                    [op |-> "redoLast", pc |-> "return",
                     result |-> rowToOperation(call[c].newOp)]]
    /\ track' = IF track.st = "redone" /\ track.by = c THEN track ELSE NoTrack
    /\ UNCHANGED <<rooms, operations, sequence_seq, clock, roomId, conn, fetched,
                   canvasOps, inbox, strokeCount, budget, accepted, undone,
                   freshCommit, missed>>
    /\ lifo' = [lifo EXCEPT ![Room(c)].stack =
                    IF Len(@) <= lifo[Room(c)].lost THEN @
                    ELSE SubSeq(@, 1, Len(@) - 1)]
    /\ UNCHANGED <<presence, previous>>
    /\ UNCHANGED cleared
    /\ UNCHANGED drawing
    /\ UNCHANGED cursors

\* handleRedo, after redoLast has returned: canvas.addOperation(redoneOp).
RedoReturn(c) ==
    /\ call[c].op = "redoLast"
    /\ call[c].pc = "return"
    /\ canvasOps' = [canvasOps EXCEPT ![c] =
                        IF call[c].result = None THEN @
                        ELSE addOperation(@, call[c].result)]
    /\ call' = [call EXCEPT ![c] = Idle]
    /\ UNCHANGED <<server, roomId, conn, fetched, inbox, strokeCount, budget,
                   history>>
    /\ UNCHANGED <<presence, previous>>
    /\ UNCHANGED drawing
    /\ UNCHANGED cursors

\* ------------------------------------------- a second pending commitStroke

\* endDrawing while the commitStroke of an earlier stroke of the client is
\* pending: the stroke is appended to the local operations and handed to
\* onStrokeComplete, which calls commitStroke without waiting for the other.
EndDrawingWhilePending(c) ==
    /\ conn[c] # "disconnected" /\ budget > 0
    /\ isInitialized(c)
    /\ call[c].op = "commitStroke"
    /\ pendingCommit[c] = None
    /\ canvasOps' = [canvasOps EXCEPT ![c] = Append(@, FinalStroke(c))]
    /\ strokeCount' = [strokeCount EXCEPT ![c] = @ + 1]
    /\ pendingCommit' = [pendingCommit EXCEPT ![c] =
                    [op |-> "commitStroke", pc |-> "clearRedoStack",
                     stroke |-> FinalStroke(c), before |-> Before(Room(c))]]
    /\ budget' = budget - 1
    /\ track' = NoTrack
    /\ lifo' = Void(Room(c))
    /\ UNCHANGED <<server, roomId, conn, presence, previous, fetched, inbox, call,
                   accepted, undone, freshCommit, missed, cleared, toolSettings,
                   currentStrokeRef, pointBufferRef, filterCall, loads>>
    /\ UNCHANGED cursors

\* The second commitStroke: await this.clearRedoStack().
PendingCommitClearRedoStack(c) ==
    /\ pendingCommit[c] # None
    /\ pendingCommit[c].pc = "clearRedoStack"
    /\ redo_stack' = redo_stack \ RoomRedo(Room(c))
    /\ pendingCommit' = [pendingCommit EXCEPT ![c].pc = "insert"]
    /\ track' = NoTrack
    /\ lifo' = Void(Room(c))
    /\ UNCHANGED <<rooms, operations, sequence_seq, clock, roomId, conn, presence,
                   previous, fetched, canvasOps, inbox, call, strokeCount, budget,
                   accepted, undone, freshCommit, missed, cleared, toolSettings,
                   currentStrokeRef, pointBufferRef, filterCall, loads>>
    /\ UNCHANGED cursors

\* The second commitStroke: the insert into operations, and its return.
PendingCommitInsert(c) ==
    /\ pendingCommit[c] # None
    /\ pendingCommit[c].pc = "insert"
    /\ Room(c) \in rooms
    /\ LET row == StrokeRow(Room(c), UserId(c), pendingCommit[c].stroke)
       IN  /\ operations' = operations \cup {row}
           /\ inbox' = Broadcast(Room(c), {InsertEvent(row)})
           /\ accepted' = Append(accepted,
                    [room_id |-> row.room_id, sequence |-> row.sequence, by |-> c,
                     kind |-> "commitStroke", during |-> Appending(c),
                     to |-> Subscribers(row.room_id), data_id |-> row.data.id,
                     redo_id |-> None])
    /\ sequence_seq' = sequence_seq + 1
    /\ pendingCommit' = [pendingCommit EXCEPT ![c] = None]
    /\ freshCommit' = [freshCommit EXCEPT ![Room(c)] = NoUndoPending(Room(c))]
    /\ missed' = Missed(Room(c))
    /\ track' = NoTrack
    /\ lifo' = Void(Room(c))
    /\ UNCHANGED <<rooms, redo_stack, clock, roomId, conn, presence, previous,
                   fetched, canvasOps, call, strokeCount, budget, undone, cleared,
                   toolSettings, currentStrokeRef, pointBufferRef, filterCall,
                   loads>>
    /\ UNCHANGED cursors

\* ------------------------------------------------- failures of undo, redo

\* undoLast: the insert into redo_stack fails; its result is not looked at
\* and the call goes on to the delete.
UndoInsertRedoFail(c) ==
    /\ call[c].op = "undoLast"
    /\ call[c].pc = "insertRedo"
    /\ call' = [call EXCEPT ![c].pc = "delete"]
    /\ freshCommit' = [freshCommit EXCEPT ![Room(c)] = FALSE]
    /\ track' = NoTrack
    /\ lifo' = Void(Room(c))
    /\ UNCHANGED <<server, roomId, conn, presence, previous, fetched, canvasOps,
                   inbox, strokeCount, budget, accepted, undone, missed, cleared>>
    /\ UNCHANGED drawing
    /\ UNCHANGED cursors

\* undoLast: the delete fails (deleteError) and undoLast returns null.
UndoDeleteFail(c) ==
    /\ call[c].op = "undoLast"
    /\ call[c].pc = "delete"
    /\ call' = [call EXCEPT ![c] =
                    [op |-> "undoLast", pc |-> "return", result |-> None,
                     failed |-> "delete", lastOp |-> call[c].lastOp,
                     before |-> call[c].before]]
    /\ track' = NoTrack
    /\ lifo' = Void(Room(c))
    /\ UNCHANGED <<server, roomId, conn, presence, previous, fetched, canvasOps,
                   inbox, strokeCount, budget, accepted, undone, freshCommit,
                   missed, cleared>>
    /\ UNCHANGED drawing
    /\ UNCHANGED cursors

\* A redoLast that removes the entry from the redo stack although its insert
\* has failed.
RedoInsertFailForgets(c) ==
    /\ call[c].op = "redoLast"
    /\ call[c].pc = "insert"
    /\ redo_stack' = {e \in redo_stack : e.id # call[c].redoItem.id}
    /\ call' = [call EXCEPT ![c] =
                    [op |-> "redoLast", pc |-> "return", result |-> None,
                     failed |-> "insert", redoItem |-> call[c].redoItem,
                     before |-> call[c].before]]
    /\ track' = NoTrack
    /\ lifo' = Void(Room(c))
    /\ UNCHANGED <<rooms, operations, sequence_seq, clock, roomId, conn, presence,
                   previous, fetched, canvasOps, inbox, strokeCount, budget,
                   accepted, undone, freshCommit, missed, cleared>>
    /\ UNCHANGED drawing
    /\ UNCHANGED cursors

\* redoLast: the insert fails (insertError) and redoLast returns null. An
\* insert the database has refused has taken its value of the sequence.
RedoInsertFail(c) ==
    /\ call[c].op = "redoLast"
    /\ call[c].pc = "insert"
    /\ call' = [call EXCEPT ![c] =
                    [op |-> "redoLast", pc |-> "return", result |-> None,
                     failed |-> "insert", redoItem |-> call[c].redoItem,
                     before |-> call[c].before]]
    /\ track' = NoTrack
    /\ lifo' = Void(Room(c))
    /\ sequence_seq' \in {sequence_seq, sequence_seq + 1}
    /\ UNCHANGED <<rooms, operations, redo_stack, clock, roomId, conn, presence,
                   previous, fetched, canvasOps, inbox, strokeCount, budget,
                   accepted, undone, freshCommit, missed, cleared>>
    /\ UNCHANGED drawing
    /\ UNCHANGED cursors

\* ------------------------------------------------------- realtime delivery

\* The handlers of the operations channel. INSERT: the operation goes to
\* onOperationReceived (canvas.addOperation) unless its user is this client's.
\* DELETE: the identifier goes to onOperationDeleted (canvas.removeOperation).
Deliver(c) ==
    \E e \in inbox[c] :
        /\ inbox' = [inbox EXCEPT ![c] = @ \ {e}]
        /\ canvasOps' = [canvasOps EXCEPT ![c] =
                IF e.event = "INSERT"
                THEN IF rowToOperation(e.new).userId # UserId(c)
                     THEN addOperation(@, rowToOperation(e.new))
                     ELSE @
                ELSE removeOperation(@, e.old.id)]
        /\ UNCHANGED <<server, roomId, conn, presence, previous, fetched, call, strokeCount,
                       budget, history>>
        /\ UNCHANGED drawing
        /\ UNCHANGED cursors

\* ------------------------------------------------------------------- Next

Next ==
    \E c \in Clients :
        \/ Connect(c)
        \/ ConnectSelect(c)
        \/ ConnectReturn(c)
        \/ Subscribed(c)
        \/ EndDrawing(c)
        \/ CommitClearRedoStack(c)
        \/ CommitInsert(c)
        \/ StartClear(c)
        \/ ClearDelete(c)
        \/ UndoSelect(c)
        \/ UndoInsertRedo(c)
        \/ UndoDelete(c)
        \/ UndoReturn(c)
        \/ RedoSelect(c)
        \/ RedoInsert(c)
        \/ RedoDeleteRedo(c)
        \/ RedoReturn(c)
        \/ Deliver(c)

\* Sessions on the database as the migrations leave it.
Spec == Init /\ [][Next]_vars

\* The commands of clients that are live.
NextLive ==
    \E c \in Clients :
        \/ EndDrawing(c)
        \/ CommitClearRedoStack(c)
        \/ CommitInsert(c)
        \/ StartClear(c)
        \/ ClearDelete(c)
        \/ UndoSelect(c)
        \/ UndoInsertRedo(c)
        \/ UndoDelete(c)
        \/ UndoReturn(c)
        \/ RedoSelect(c)
        \/ RedoInsert(c)
        \/ RedoDeleteRedo(c)
        \/ RedoReturn(c)
        \/ Deliver(c)

\* Sessions on a database with a history and a full redo stack.
SpecSeeded == InitSeeded /\ [][NextLive]_vars

\* Sessions of two live clients on the database as the migrations leave it.
SpecLive == InitLive /\ [][NextLive]_vars

\* The steps of sessions in which a request or a subscription can fail.
NextFaulty ==
    \/ Next
    \/ \E c \in Clients :
        \/ ConnectFetchFail(c)
        \/ SubscribeFail(c)
        \/ PresenceSubscribed(c)
        \/ PresenceFail(c)
        \/ CommitInsertFail(c)

\* Sessions with failures on the database as the migrations leave it.
SpecFaulty == InitFaulty /\ [][NextFaulty]_vars

\* The steps of sessions in which the users change rooms.
NextRooms ==
    \/ Next
    \/ \E c \in Clients :
        \/ \E r \in Rooms : SwitchRoom(c, r)
        \/ CommitInsertRefused(c)
        \/ StaleConnectSelect(c)
        \/ StaleConnectReturn(c)
        \/ StaleSubscribed(c)

\* Sessions with room changes on the database as the migrations leave it.
SpecRooms == InitRooms /\ [][NextRooms]_vars

\* Drawing with the pointer, and the commits and events that follow from it.
NextDraw ==
    \E c \in Clients :
        \/ \E width \in WidthsTried : updateSettings(c, width)
        \/ \E xy \in EventCoordinates : startDrawing(c, xy)
        \/ \E xy \in EventCoordinates : continueDrawing(c, xy)
        \/ endDrawing(c)
        \/ CommitClearRedoStack(c)
        \/ CommitInsert(c)
        \/ Deliver(c)

\* Sessions of two live clients that draw.
SpecDraw == InitDraw /\ [][NextDraw]_vars

\* onStateSync(operations): canvas.setOperations with the list held.
Replay(c) ==
    /\ Len(loads[c]) < MaxLoads
    /\ canvasOps' = [canvasOps EXCEPT ![c] = setOperations(fetched[c])]
    /\ loads' = [loads EXCEPT ![c] = Append(@, setOperations(fetched[c]))]
    /\ UNCHANGED <<server, roomId, conn, presence, previous, fetched, inbox,
                   call, strokeCount, budget, history, toolSettings,
                   currentStrokeRef, pointBufferRef, filterCall, pendingCommit>>
    /\ UNCHANGED cursors

\* canvas.setOperations with the list the Canvas State holds.
ReplayState(c) ==
    /\ loads[c] # <<>>
    /\ Len(loads[c]) < MaxLoads
    /\ canvasOps' = [canvasOps EXCEPT ![c] = setOperations(canvasOps[c])]
    /\ loads' = [loads EXCEPT ![c] = Append(@, setOperations(canvasOps[c]))]
    /\ UNCHANGED <<server, roomId, conn, presence, previous, fetched, inbox,
                   call, strokeCount, budget, history, toolSettings,
                   currentStrokeRef, pointBufferRef, filterCall, pendingCommit>>
    /\ UNCHANGED cursors

NextReplay == \E c \in Clients : Replay(c) \/ ReplayState(c)

\* Repeated loads of a list into the Canvas State.
SpecReplay == InitReplay /\ [][NextReplay]_vars

\* The clients that are open in SpecCursor: each client has a timeout and a
\* presence channel of its own, and no client reads the cursor of another.
CursorClients == {"A"}

\* Drawing strokes one after the other without waiting for the commits.
NextQuick ==
    \E c \in Clients :
        \/ EndDrawing(c)
        \/ EndDrawingWhilePending(c)
        \/ CommitClearRedoStack(c)
        \/ CommitInsert(c)
        \/ PendingCommitClearRedoStack(c)
        \/ PendingCommitInsert(c)
        \/ Deliver(c)

\* Sessions of two live clients that draw quickly.
SpecQuick == InitQuick /\ [][NextQuick]_vars

\* The client whose requests can fail in SpecErrors; the other one looks on.
ErrorClients == {"A"}

\* The commands of one client, each request of which can fail, and the events
\* that reach both clients.
NextErrors ==
    \/ \E c \in ErrorClients :
        \/ EndDrawing(c)
        \/ CommitClearRedoStack(c)
        \/ CommitInsert(c)
        \/ CommitInsertFail(c)
        \/ UndoSelect(c)
        \/ UndoInsertRedo(c)
        \/ UndoInsertRedoFail(c)
        \/ UndoDelete(c)
        \/ UndoDeleteFail(c)
        \/ UndoReturn(c)
        \/ RedoSelect(c)
        \/ RedoInsert(c)
        \/ RedoInsertFail(c)
        \/ RedoDeleteRedo(c)
        \/ RedoReturn(c)
    \/ \E c \in Clients : Deliver(c)

\* Sessions of one client whose requests can fail.
SpecErrors == InitErrors /\ [][NextErrors]_vars

\* Connecting, changing rooms and moving the pointer, as time passes.
NextCursor ==
    \/ Tick
    \/ \E c \in CursorClients :
        \/ Connect(c)
        \/ ConnectSelect(c)
        \/ ConnectReturn(c)
        \/ Subscribed(c)
        \/ PresenceSubscribed(c)
        \/ PresenceFail(c)
        \/ \E r \in Rooms : SwitchRoom(c, r)
        \/ StaleConnectSelect(c)
        \/ StaleConnectReturn(c)
        \/ StaleSubscribed(c)
        \/ \E position \in CursorPositions : updateCursor(c, position)
        \/ CursorTimer(c)
        \/ CursorTrackFail(c)
        \/ CursorDrop(c)

\* Sessions of cursor updates.
SpecCursor == InitCursor /\ [][NextCursor]_vars

\* filterNearbyPoints(points, minDistance) returns.
Filter ==
    /\ filterCall # None
    /\ ~ filterCall.returned
    /\ filterCall' = [filterCall EXCEPT
            !.returned = TRUE,
            !.result = filterNearbyPoints(filterCall.points, filterCall.minDistance)]
    /\ UNCHANGED <<server, roomId, conn, presence, previous, fetched, canvasOps,
                   inbox, call, strokeCount, budget, history, toolSettings,
                   currentStrokeRef, pointBufferRef, pendingCommit, loads>>
    /\ UNCHANGED cursors

NextFilter == Filter

\* The calls of filterNearbyPoints.
SpecFilter == InitFilter /\ [][NextFilter]_vars

\* The handling of events that have been sent.
NextDeliver == \E c \in Clients : Deliver(c)

\* The INSERT events of a room handled by its clients in any order.
SpecDeliver == InitDeliver /\ [][NextDeliver]_vars

\* ================================================================ claims

\* No call is pending, no event is undelivered and no connect is under way.
Quiescent ==
    \A c \in Clients :
        /\ call[c] = Idle
        /\ inbox[c] = {}
        /\ conn[c] \in {"disconnected", "live"}

\* What an operation draws and who drew it: everything but its identifier
\* and its sequence.
Content(op) ==
    [type |-> op.type, userId |-> op.userId, color |-> op.color,
     width |-> op.width, tool |-> op.tool, points |-> op.points]

Contents(ops) == [i \in 1..Len(ops) |-> Content(ops[i])]

\* The identifiers in a client's Canvas State.
CanvasIds(c) == {canvasOps[c][i].id : i \in 1..Len(canvasOps[c])}

\* C1: the sequence numbers given to the appends of one room (the inserts of
\* commitStroke and of redoLast, by any clients, in any interleaving) are
\* pairwise distinct and strictly increasing in the order in which the log
\* store accepted the appends.
C1_SequencesIncrease ==
    \A i, j \in 1..Len(accepted) :
        (i < j /\ accepted[i].room_id = accepted[j].room_id)
            => accepted[i].sequence < accepted[j].sequence

\* Two clients append to one room concurrently, one by commitStroke and the
\* other by redoLast: the second append was already pending when the first
\* was accepted.
C1_Witness ==
    \E i, j \in 1..Len(accepted) :
        /\ i < j
        /\ accepted[i].room_id = accepted[j].room_id
        /\ accepted[j].by \in accepted[i].during
        /\ accepted[i].kind # accepted[j].kind

\* C2: convergence. Once no call is pending and every event has been
\* delivered, the Canvas State of every connected client that was subscribed
\* before the log changed holds exactly the operations of the room's log, in
\* ascending order of sequence. Operations are compared by content, so that a
\* client's own copy of its stroke counts as the committed operation.
C2_Convergence ==
    Quiescent =>
        \A c \in Clients :
            (conn[c] = "live" /\ ~missed[c])
                => Contents(canvasOps[c]) = Contents(MapRows(ListOrdered(Room(c))))

\* C3: late join. Once no call is pending and every event has been
\* delivered, no operation of the room's log that another user committed is
\* missing from the Canvas State of a connected client, whenever that client
\* connected.
C3_LateJoin ==
    Quiescent =>
        \A c \in Clients :
            conn[c] = "live" =>
                \A r \in RoomOps(Room(c)) :
                    r.user_id # UserId(c) => r.id \in CanvasIds(c)

\* C4: after undoLast has returned the identifier of an operation, the
\* operation is in the Canvas State neither of the caller nor of a client the
\* removal event was sent to and has been delivered to, be it under the row's
\* identifier or under the identifier its author gave it; this as long as the
\* operation has not been re-appended by a redo.
C4_UndoneIsGone ==
    \A u \in undone :
        (~ \E r \in operations : r.data.id = u.row.data.id) =>
            \A c \in {u.by} \cup u.to :
                ( /\ ~missed[c]
                  /\ isInitialized(c)
                  /\ DeleteEvent(u.row) \notin inbox[c] )
                    => CanvasIds(c) \cap {u.row.id, u.row.data.id} = {}

\* C5: undoLast on a non-empty room log. Its select takes the operation with
\* the highest sequence in the room's log, whoever its author; its insert
\* stores that operation as the most recent entry of the room's redo stack;
\* its delete leaves every other operation of the log as it was, and the call
\* returns the identifier of the operation. When no statement of another call
\* ran between the select and the delete, the operation is still in the log
\* and still the highest of its room when the delete removes it.
C5_UndoLast ==
    [][\A c \in Clients :
        /\ (call[c] = Idle /\ call'[c].op = "undoLast" /\ RoomOps(Room(c)) # {})
            => /\ call'[c].pc = "insertRedo"
               /\ call'[c].lastOp \in RoomOps(Room(c))
               /\ \A q \in RoomOps(Room(c)) : q.sequence <= call'[c].lastOp.sequence
        /\ (call[c].op = "undoLast" /\ call[c].pc = "insertRedo"
                /\ call'[c].pc = "delete")
            => \E e \in redo_stack' \ redo_stack :
                /\ e.room_id = Room(c)
                /\ e.original_id = call[c].lastOp.id
                /\ e.operation_data = call[c].lastOp
                /\ \A f \in redo_stack' :
                        f.room_id = Room(c) => f.deleted_at <= e.deleted_at
        /\ (call[c].op = "undoLast" /\ call[c].pc = "delete"
                /\ call'[c].pc = "return")
            => /\ operations' = operations \ {call[c].lastOp}
               /\ call'[c].result = call[c].lastOp.id
               /\ (track.st = "undoing" /\ track.by = c)
                    => /\ call[c].lastOp \in operations
                       /\ call[c].lastOp \notin operations'
                       /\ \A q \in RoomOps(Room(c)) :
                            q.sequence <= call[c].lastOp.sequence
      ]_vars

\* A client has undone an operation that another user drew, two operations
\* being in the log.
C5_Witness ==
    \E c \in Clients :
        /\ call[c].op = "undoLast"
        /\ call[c].pc = "return"
        /\ call[c].result # None
        /\ call[c].lastOp.user_id # UserId(c)
        /\ call[c].lastOp \notin operations
        /\ operations # {}

\* C6: a redoLast that starts when a commitStroke or a commitClear of the
\* room has completed, no undoLast being under way at its completion, and no
\* undoLast has started since, finds nothing to redo.
C6_RedoAfterCommit ==
    [][\A c \in Clients :
        (call[c] = Idle /\ call'[c].op = "redoLast" /\ freshCommit[Room(c)])
            => call'[c].pc = "return"
      ]_vars

C8_ConcurrentUndos ==
    \A c, d \in Clients :
        ( /\ c # d
          /\ Room(c) = Room(d)
          /\ call[c].op = "undoLast" /\ call[c].pc = "return"
          /\ call[d].op = "undoLast" /\ call[d].pc = "return"
          /\ call[c].result # None /\ call[d].result # None
          /\ call[c].logSize >= 2 /\ call[d].logSize >= 2 )
            => /\ call[c].result # call[d].result
               /\ \A e, f \in RoomRedo(Room(c)) :
                    ( /\ e.original_id = f.original_id
                      /\ e.original_id \in {call[c].result, call[d].result} )
                        => e = f

C12_NothingToDo ==
    [][\A c \in Clients :
        /\ (call[c] = Idle /\ call'[c].op = "undoLast" /\ RoomOps(Room(c)) = {})
            => /\ call'[c].pc = "return"
               /\ call'[c].result = None
               /\ UNCHANGED <<operations, redo_stack, canvasOps>>
        /\ (call[c] = Idle /\ call'[c].op = "redoLast" /\ RoomRedo(Room(c)) = {})
            => /\ call'[c].pc = "return"
               /\ call'[c].result = None
               /\ UNCHANGED <<operations, redo_stack, canvasOps>>
        /\ ( /\ call[c].op \in {"undoLast", "redoLast"}
             /\ call[c].pc = "return"
             /\ call[c].result = None
             /\ call'[c] = Idle )
            => UNCHANGED <<operations, redo_stack, canvasOps>>
      ]_vars

\* One client's undoLast has found the log empty and another client's
\* redoLast the redo stack empty; both are about to return None.
C12_Witness ==
    \E c, d \in Clients :
        /\ call[c].op = "undoLast" /\ call[c].pc = "return" /\ call[c].result = None
        /\ call[d].op = "redoLast" /\ call[d].pc = "return" /\ call[d].result = None
        /\ operations = {}
        /\ redo_stack = {}

\* C13: handling an operation whose identifier is already in the client's
\* Canvas State leaves the Canvas State as it was, be it the INSERT event of
\* an operation the client has added itself after its redoLast, or the
\* result of its redoLast when the event was handled first.
C13_IdempotentDelivery ==
    [][\A c \in Clients :
        /\ (\E e \in inbox[c] \ inbox'[c] :
                e.event = "INSERT" /\ e.new.id \in CanvasIds(c))
            => canvasOps'[c] = canvasOps[c]
        /\ ( /\ call[c].op = "redoLast" /\ call[c].pc = "return"
             /\ call'[c] = Idle
             /\ call[c].result # None
             /\ call[c].result.id \in CanvasIds(c) )
            => canvasOps'[c] = canvasOps[c]
      ]_vars

\* A client has re-appended another user's operation by redoLast, the INSERT
\* event of that append was sent to it, and both the event and the result of
\* the call have been handled.
C13_Witness ==
    \E c \in Clients : \E i \in 1..Len(accepted) :
        /\ accepted[i].kind = "redoLast"
        /\ accepted[i].by = c
        /\ c \in accepted[i].to
        /\ call[c] = Idle
        /\ \E r \in operations :
            /\ r.sequence = accepted[i].sequence
            /\ r.user_id # UserId(c)
            /\ InsertEvent(r) \notin inbox[c]
            /\ Cardinality({k \in 1..Len(canvasOps[c]) : canvasOps[c][k].id = r.id}) = 1

\* C14: whatever the order in which the INSERT events of operations with
\* distinct sequences are handled, the Canvas State is at every moment the
\* operations handled so far in ascending order of sequence, and once all are
\* handled it is the room's log in that order.
C14_InsertBySequence ==
    \A c \in Clients :
        canvasOps[c] = MapRows(OrderRows(
                            RoomOps(Room(c)) \ {e.new : e \in inbox[c]}))

\* Three operations or more have reached a client by events, all handled.
C14_Witness ==
    \E c \in Clients :
        /\ inbox[c] = {}
        /\ Len(canvasOps[c]) >= 3
        /\ Cardinality({i \in 1..Len(accepted) : c \in accepted[i].to}) >= 3

\* C15: an operation in a client's Canvas State whose row is in the log, the
\* commit having returned, has the sequence of the row; the operation is the
\* row's when it has the row's identifier or the identifier the row's data
\* records for it.
C15_SequenceFromLog ==
    \A c \in Clients : \A k \in 1..Len(canvasOps[c]) : \A r \in operations :
        (canvasOps[c][k].id \in {r.id, r.data.id})
            => canvasOps[c][k].sequence = r.sequence

\* C16: once no call is pending and every event has been handled, every
\* operation of the log that was appended by the call of another client
\* (commitStroke or redoLast) while this client's subscription was active is
\* in this client's Canvas State, whoever its author.
C16_DeliveredToPeers ==
    Quiescent =>
        \A c \in Clients : \A i \in 1..Len(accepted) :
            ( /\ accepted[i].by # c
              /\ c \in accepted[i].to
              /\ \E r \in operations : r.sequence = accepted[i].sequence )
                => <<"row", accepted[i].sequence>> \in CanvasIds(c)

\* The most recently undone of the operations not yet redone.
Top(st) == st[Len(st)]

\* The operations undone and not yet redone that a stack of RedoLimit
\* entries, evicting its oldest entry when a push finds it full, still holds.
Held(h) == SubSeq(h.stack, h.lost + 1, Len(h.stack))

\* A redoLast that follows consecutive undoLast calls, the calls running one
\* at a time: its select takes the redo-stack entry of the most recently
\* undone operation not yet redone; its insert appends an operation with that
\* operation's content after every operation of the room's log and changes
\* nothing else of the log; its delete removes that entry of the redo stack
\* and no other.
PopsMostRecent(c, st) ==
    /\ ( /\ call[c] = Idle /\ call'[c].op = "redoLast"
         /\ lifo'[Room(c)].ok
         /\ st # <<>> )
        => /\ call'[c].pc = "insert"
           /\ call'[c].redoItem.operation_data = Top(st)
    /\ ( /\ call[c].op = "redoLast" /\ call[c].pc = "insert"
         /\ call'[c].pc = "deleteRedo"
         /\ lifo[Room(c)].ok
         /\ st # <<>> )
        => \E new \in operations' \ operations :
            /\ operations' = operations \cup {new}
            /\ Content(rowToOperation(new)) = Content(rowToOperation(Top(st)))
            /\ new.room_id = Room(c)
            /\ \A q \in RoomOps(Room(c)) : q.sequence < new.sequence
    /\ ( /\ call[c].op = "redoLast" /\ call[c].pc = "deleteRedo"
         /\ call'[c].pc = "return"
         /\ lifo[Room(c)].ok
         /\ st # <<>> )
        => /\ redo_stack' \subseteq redo_stack
           /\ Cardinality(redo_stack \ redo_stack') = 1
           /\ \A e \in redo_stack \ redo_stack' :
                e.room_id = Room(c) /\ e.operation_data = Top(st)

\* C11, as the claim states it, for every number k of consecutive undoLast
\* calls: each following redoLast re-appends the most recently undone
\* operation not yet redone and removes exactly its entry, and every
\* operation undone and not yet redone has its entry on the room's redo
\* stack, so that k redoLast calls restore all k operations.
C11_RedoRestoresAll ==
    [][ /\ \A c \in Clients : PopsMostRecent(c, lifo[Room(c)].stack)
        /\ \A r \in Rooms :
            lifo'[r].ok =>
                \A i \in 1..Len(lifo'[r].stack) :
                    \E e \in redo_stack' :
                        e.room_id = r /\ e.operation_data = lifo'[r].stack[i]
      ]_vars

\* C11, within the limit of the redo stack: each redoLast that follows
\* consecutive undoLast calls re-appends the most recently undone operation
\* not yet redone and removes exactly its entry, and the room's redo stack
\* holds the entries of the operations undone and not yet redone, except
\* those a push onto a full stack has evicted, and no others; so that after
\* k <= RedoLimit undoLast calls on an empty redo stack k redoLast calls
\* restore the k operations in their original order.
C11_RedoIsLifo ==
    [][ /\ \A c \in Clients : PopsMostRecent(c, Held(lifo[Room(c)]))
        /\ \A r \in Rooms :
            lifo'[r].ok =>
                {e.operation_data : e \in {f \in redo_stack' : f.room_id = r}}
                    = Range(Held(lifo'[r]))
      ]_vars

\* After the consecutive undoLast calls of an earlier session and one of
\* another client, a client's redoLast has re-appended the operation that
\* other client had just undone.
C11_Witness ==
    \E c \in Clients : \E u \in undone :
        /\ u.by # c
        /\ call[c].op = "redoLast" /\ call[c].pc = "return"
        /\ call[c].result # None
        /\ Content(call[c].result) = Content(rowToOperation(u.row))
        /\ lifo[Room(c)].ok
        /\ Len(lifo[Room(c)].stack) >= RedoLimit - 1

\* The strokes of client c whose commitStroke has returned without a row
\* having been stored: the insert failed.
FailedStrokes(c) ==
    {id \in {<<c, k>> : k \in 1..strokeCount[c]} :
        /\ ~ (call[c].op = "commitStroke" /\ call[c].stroke.id = id)
        /\ \A i \in 1..Len(accepted) : accepted[i].data_id # id}

\* C17: after a commitStroke whose insert failed has returned, the stroke is
\* not in the Canvas State of the client that drew it.
C17_FailedCommitNotKept ==
    \A c \in Clients : FailedStrokes(c) \cap CanvasIds(c) = {}

\* C18: a client whose initial fetch has failed is not reported as connected,
\* and a client reported as connected (connect has resolved and its
\* operations were handed to onStateSync) has no subscription that could not
\* be established.
C18_ConnectedMeansSubscribed ==
    \A c \in Clients :
        /\ conn[c] = "fetchFailed" => ~isConnected(c)
        /\ isConnected(c) =>
            /\ conn[c] # "channelError"
            /\ presence[c] # "CHANNEL_ERROR"

\* C19: a SyncService on which disconnect has been called does not become
\* Live: its subscriptions are never active afterwards.
C19_DisconnectedStaysDisconnected ==
    \A c \in Clients : previous[c].st # "live"

\* C20: every operation of the log in a client's Canvas State was appended
\* to the room the client is in.
C20_RoomIsolation ==
    \A c \in Clients : \A i \in 1..Len(canvasOps[c]) :
        canvasOps[c][i].sequence > 0 =>
            \E j \in 1..Len(accepted) :
                /\ accepted[j].sequence = canvasOps[c][i].sequence
                /\ accepted[j].room_id = Room(c)

\* C21: a commitStroke that completes, in whatever room the client has
\* opened, has stored its stroke in the log of that room.
C21_CommitStoresStroke ==
    [][\A c \in Clients :
        (call[c].op = "commitStroke" /\ call[c].pc = "insert" /\ call'[c] = Idle)
            => \E row \in operations' :
                /\ row.room_id = Room(c)
                /\ row.data.id = call[c].stroke.id]_vars

\* The strokes in the Canvas State of client c: the ones drawn by c itself
\* and the ones that came from the log.
CanvasStrokes(c) ==
    {canvasOps[c][i].id : i \in {k \in 1..Len(canvasOps[c]) :
                                    canvasOps[c][k].sequence = 0}}
    \cup {accepted[j].data_id : j \in {k \in 1..Len(accepted) :
            \E i \in 1..Len(canvasOps[c]) :
                /\ canvasOps[c][i].sequence > 0
                /\ canvasOps[c][i].sequence = accepted[k].sequence}}

\* C22: a stroke that a commitClear removed from the log of a room is not in
\* the log of that room, and it is not in the Canvas State of a client that
\* was subscribed to the room at the clear, is still connected to it and has
\* handled the events sent to it.
C22_ClearedIsGone ==
    \A e \in cleared :
        /\ \A row \in RoomOps(e.room) : row.data.id # e.id
        /\ \A c \in e.to :
            (conn[c] = "live" /\ Room(c) = e.room /\ inbox[c] = {})
                => e.id \notin CanvasStrokes(c)

\* s is t with some elements left out.
IsSubsequence(s, t) ==
    \E f \in [DOMAIN s -> DOMAIN t] :
        /\ \A i \in DOMAIN s : s[i] = t[f[i]]
        /\ \A i, j \in DOMAIN s : i < j => f[i] < f[j]

\* The array (0,0), (0,1), (0,2).
ThreeClose == <<[x |-> 0, y |-> 0], [x |-> 0, y |-> 1], [x |-> 0, y |-> 2]>>

\* C23: for a non-empty input, filterNearbyPoints returns a non-empty
\* subsequence of the input that starts with its first and ends with its last
\* point, in which every point but possibly the last is at least minDistance
\* from the one retained before it; (0,0),(0,1),(0,2) with minDistance 5
\* gives (0,0),(0,2).
C23_DistanceFiltering ==
    (filterCall # None /\ filterCall.returned /\ filterCall.points # <<>>)
    => LET points == Coordinates(filterCall.points)
           result == Coordinates(filterCall.result)
           k == Len(result)
       IN  /\ k > 0
           /\ IsSubsequence(result, points)
           /\ result[1] = points[1]
           /\ result[k] = points[Len(points)]
           /\ \A i \in 2..(k - 1) :
                distanceAtLeast(result[i - 1], result[i], filterCall.minDistance)
           /\ (points = ThreeClose /\ filterCall.minDistance = 5)
                => result = <<[x |-> 0, y |-> 0], [x |-> 0, y |-> 2]>>

\* C23 witness: the last point was retained although it is closer than
\* minDistance to the point retained before it.
C23_Witness ==
    /\ filterCall # None
    /\ filterCall.returned
    /\ Len(filterCall.points) = 3
    /\ LET result == filterCall.result
       IN  /\ Len(result) = 2
           /\ ~ distanceAtLeast(result[1], result[2], filterCall.minDistance)

\* C24: endDrawing hands a stroke to commitStroke only when a stroke is in
\* progress and its filtered points are not empty, it hands over that stroke
\* and leaves no stroke in progress, so an endDrawing that follows without a
\* startDrawing commits nothing; no stroke is stored twice by commitStroke.
C24_OneCommitPerStroke ==
    /\ [](\A i, j \in 1..Len(accepted) :
            (i < j /\ accepted[i].kind = "commitStroke"
                   /\ accepted[j].kind = "commitStroke")
                => accepted[i].data_id # accepted[j].data_id)
    /\ [][\A c \in Clients :
            /\ (call[c] = Idle /\ call'[c] # Idle /\ call'[c].op = "commitStroke")
                => /\ currentStrokeRef[c] # None
                   /\ call'[c].stroke.id = currentStrokeRef[c].id
                   /\ Len(call'[c].stroke.points) > 0
                   /\ currentStrokeRef'[c] = None
            /\ (currentStrokeRef[c] = None /\ currentStrokeRef'[c] = None)
                => call'[c] = call[c] \/ call[c] # Idle]_vars

\* C24 witness: a stroke was started, ended and stored, a second one was
\* started and ended, and no stroke is in progress.
C24_Witness ==
    \E c \in Clients :
        /\ strokeCount[c] = 2
        /\ currentStrokeRef[c] = None
        /\ \E i \in 1..Len(accepted) : accepted[i].data_id = <<c, 1>>
        /\ call[c] # Idle
        /\ call[c].stroke.id = <<c, 2>>

C26_RedoKeepsSequence ==
    track.st = "redone" =>
        /\ track.newOp.sequence = track.row.sequence
        /\ \A c \in Clients \ {track.by} :
                (conn[c] = "live" /\ Room(c) = track.newOp.room_id
                    /\ ~missed[c] /\ inbox[c] = {})
                => track.newOp.id \in CanvasIds(c)

\* C27: the Canvas State after a list of operations was loaded into it
\* several times in a row, or after the list it holds was loaded again, is the
\* Canvas State after the first load.
C27_ReplayIdempotent ==
    \A c \in Clients : \A i \in 1..Len(loads[c]) :
        /\ loads[c][i] = loads[c][1]
        /\ canvasOps[c] = loads[c][1]

\* C27 witness: a list that was not in order of sequence and holds two
\* operations of one sequence was loaded more than once.
C27_Witness ==
    \E c \in Clients :
        /\ Len(loads[c]) >= 2
        /\ loads[c][1] # fetched[c]
        /\ \E i, j \in 1..Len(fetched[c]) :
                i < j /\ fetched[c][i].sequence = fetched[c][j].sequence
                      /\ fetched[c][i].id # fetched[c][j].id

\* A call of updateCursor or the firing of its timeout, at client c.
CursorStep(c) ==
    \/ cursorLog'[c] # cursorLog[c]
    \/ cursorThrottleRef[c] # None /\ cursorThrottleRef'[c] = None

\* The state a cursor update may not touch: the database, every client's
\* Canvas State, connection and pending call, and what it has drawn.
Durable ==
    <<server, roomId, conn, previous, fetched, canvasOps, inbox, call,
      strokeCount, drawing, history>>

\* C28: updateCursor only affects presence: a call of updateCursor and the
\* firing of its timeout change neither the operation log, the redo stack nor
\* any client's Canvas State; and a timeout that finds no presence channel, or
\* whose track fails, leaves no timeout pending (no retry) and changes nothing,
\* the presence state included.
C28_CursorOnlyPresence ==
    [][\A c \in Clients :
        /\ CursorStep(c) => UNCHANGED Durable
        /\ cursorLog'[c].dropped # cursorLog[c].dropped =>
               /\ cursorThrottleRef'[c] = None
               /\ UNCHANGED <<Durable, presence, tracked, now>>
               /\ cursorLog'[c].lastPublish = cursorLog[c].lastPublish]_vars

\* An update was dropped for want of a presence channel, one was dropped by a
\* failed track and one was published, while the log holds operations.
C28_Witness ==
    \E c \in Clients :
        /\ cursorLog[c].dropped = {"no channel", "failed"}
        /\ cursorLog[c].lastPublish >= 0
        /\ tracked[c] # None /\ tracked[c].cursor # None
        /\ canvasOps[c] # <<>>
        /\ operations # {}

\* Two presence publishes of one client are at least CursorDelay apart.
OnePublishPerWindow ==
    [][\A c \in Clients :
        cursorLog'[c].lastPublish # cursorLog[c].lastPublish =>
            \/ cursorLog[c].lastPublish < 0
            \/ cursorLog'[c].lastPublish - cursorLog[c].lastPublish >= CursorDelay]_vars

\* Client c is live with its presence channel subscribed, and is in a stream
\* of updateCursor calls less than CursorDelay apart that began more than
\* CursorDelay ago.
StreamContinues(c) ==
    /\ conn[c] = "live" /\ presence[c] = "SUBSCRIBED"
    /\ cursorLog[c].dropped = {}
    /\ cursorLog[c].lastCall >= 0
    /\ now - cursorLog[c].lastCall < CursorDelay
    /\ now - cursorLog[c].streamStart > CursorDelay

\* C29: cursor updates are throttled to one publish per 50 ms: two publishes
\* are at least 50 ms apart, and a stream of updateCursor calls less than 50 ms
\* apart results in a publish while the stream continues.
C29_CursorThrottled ==
    /\ OnePublishPerWindow
    /\ [](\A c \in Clients :
            StreamContinues(c) => cursorLog[c].lastPublish >= cursorLog[c].streamStart)

\* C30: in every reachable state, each client's operations list (its Canvas
\* State) is in non-decreasing order of sequence, whatever the interleaving of
\* endDrawing, addOperation, removeOperation and setOperations has been.
C30_CanvasOrdered ==
    \A c \in Clients :
        \A i, j \in 1..Len(canvasOps[c]) :
            i < j => canvasOps[c][i].sequence <= canvasOps[c][j].sequence

\* undoLast of client c has returned an identifier and its operation is no
\* longer in the log.
UndoReturned(c) ==
    /\ call[c].op = "undoLast" /\ call[c].pc = "return"
    /\ call[c].result # None
    /\ call[c].lastOp \notin operations

\* C31: undoLast never loses an operation: whenever undoLast returns an
\* operation identifier, the operation being deleted from the log, the room's
\* redo stack holds that operation, also when the write to the redo stack
\* has failed.
C31_UndoneIsKept ==
    \A c \in Clients :
        UndoReturned(c) =>
            \E e \in RoomRedo(Room(c)) :
                /\ e.original_id = call[c].result
                /\ e.operation_data = call[c].lastOp

\* undoLast of client c has returned null because its delete failed.
UndoFailed(c) ==
    /\ call[c].op = "undoLast" /\ call[c].pc = "return"
    /\ call[c].result = None
    /\ "failed" \in DOMAIN call[c]

\* C32: a failed undo changes nothing: when the delete of undoLast fails and
\* undoLast returns null, the room's operations and its redo stack are what
\* they were before the call, and the operation is not in the log and in the
\* redo stack at once.
C32_FailedUndoChangesNothing ==
    \A c \in Clients :
        UndoFailed(c) =>
            /\ Before(Room(c)) = call[c].before
            /\ ~ \E e \in RoomRedo(Room(c)) :
                    \E r \in RoomOps(Room(c)) : e.original_id = r.id

\* The redoLast calls that have put an operation into the log.
SuccessfulRedos == {i \in 1..Len(accepted) : accepted[i].kind = "redoLast"}

\* The undoLast calls that have written their redo entry: those that have
\* returned an identifier and those that have the delete or the return to come.
SuccessfulUndos ==
    Cardinality(undone)
        + Cardinality({c \in Clients :
                /\ call[c].op = "undoLast"
                /\ \/ call[c].pc = "delete"
                   \/ call[c].pc = "return" /\ call[c].result # None})

\* C33: each redo entry is re-applied at most once: however the redoLast
\* calls of the clients interleave, no two operations are put into the log
\* from one redo entry, and the successful redoLast calls are never more than
\* the successful undoLast calls.
C33_RedoAtMostOnce ==
    /\ \A i, j \in SuccessfulRedos :
            accepted[i].redo_id = accepted[j].redo_id => i = j
    /\ Cardinality(SuccessfulRedos) <= SuccessfulUndos

\* redoLast of client c is about to return null because its insert failed.
RedoFailed(c) ==
    /\ call[c].op = "redoLast" /\ call[c].pc = "return"
    /\ "failed" \in DOMAIN call[c]

\* C34: a failed redo changes nothing: when the insert of redoLast fails,
\* redoLast returns null, the room's operations and redo stack are what they
\* were before the call, and the entry is still the one the select of the
\* next redoLast returns; the return leaves the canvas as it is.
C34_FailedRedoChangesNothing ==
    /\ [](\A c \in Clients :
            RedoFailed(c) =>
                /\ call[c].result = None
                /\ Before(Room(c)) = call[c].before
                /\ call[c].redoItem \in redo_stack
                /\ LastRedoItem(Room(c)) = call[c].redoItem)
    /\ [][\A c \in Clients :
            RedoFailed(c) /\ call'[c] = Idle =>
                UNCHANGED <<operations, redo_stack, canvasOps>>]_vars

\* A redoLast whose insert has failed is about to return, in a room whose log
\* and redo stack hold entries.
C34_Witness ==
    \E c \in Clients :
        /\ RedoFailed(c)
        /\ RoomOps(Room(c)) # {}
        /\ call[c].before.redo_stack # {}

\* The step in which commitStroke of client c ends with a failed insert: the
\* call is over and no row has been stored.
CommitFails(c) ==
    /\ call[c].op = "commitStroke" /\ call[c].pc = "insert"
    /\ call'[c] = Idle
    /\ operations' = operations

\* C35: a failed commit changes nothing: when the insert of commitStroke
\* fails, the room's redo stack is what it was before the call.
C35_FailedCommitKeepsRedo ==
    [][\A c \in Clients :
        CommitFails(c) =>
            {e \in redo_stack' : e.room_id = Room(c)} = call[c].before.redo_stack]_vars

\* C36: strokes completed by one client in the order s1, s2 are appended to
\* the log in that order: of two strokes of a client that are in the log, the
\* one completed first has the smaller sequence, however the steps of the two
\* pending commitStroke calls interleave.
C36_CommitsInOrder ==
    \A r1, r2 \in operations :
        (r1.user_id = r2.user_id /\ r1.room_id = r2.room_id
            /\ r1.data.id[1] = r2.data.id[1] /\ r1.data.id[2] < r2.data.id[2])
        => r1.sequence < r2.sequence

\* A step of the SyncService that client c has disconnected.
StaleStep(c) == previous[c].st # "none" /\ previous'[c] # previous[c]

\* C37: after disconnect has been called on a SyncService, also while its
\* connect was pending, it holds no subscription (it has no channel that is
\* subscribing or subscribed) and invokes no callback: none of its steps hands
\* operations to the client's canvas or puts events into the client's inbox.
C37_DisconnectedIsSilent ==
    /\ [](\A c \in Clients : previous[c].st \notin {"subscribing", "live"})
    /\ [][\A c \in Clients :
            StaleStep(c) => canvasOps'[c] = canvasOps[c] /\ inbox'[c] = inbox[c]]_vars

====
